---- MODULE Spec2Model ----
(***************************************************************************)
(* BirdTrail subscription notifier: the SQLite subscription store          *)
(* (server/src/db.js), the management endpoints (server/src/index.js) and  *)
(* the polling notifier (notifier.js: startNotifier / execute).            *)
(*                                                                         *)
(* Time is counted in ticks of TickMinutes minutes.  A date string (an     *)
(* eBird obsDt, or the ISO string written by new Date().toISOString()) is  *)
(* represented by the tick it denotes, or by BadDate when it does not      *)
(* parse; DateParse turns it into milliseconds as Date.parse does.         *)
(***************************************************************************)
EXTENDS Integers, Sequences, FiniteSets, TLC

\* ---- bounds of the model ----
MaxSubs == 2        \* subscriptions ever created while invocations run one at a time
MaxOverlapSubs == 1 \* subscriptions ever created while invocations overlap
MaxCycles == 2      \* execute() invocations that can be in flight together
MaxFeed == 2        \* observations in one feed response
MaxStaleFeed == 1  \* observations in one feed response while invocations overlap over several rows
MaxHeld == 3        \* observations in a feed response that is held fixed
MaxNow == 2         \* last tick of the wall clock
MaxResponse == 3    \* observations in the body a feed client sorts
MaxLoads == 3       \* taxonomy requests ever issued by the UI
MaxCallers == 2     \* callers of loadSpeciesCatalog at one time
MaxRuns == 3        \* lookups one suggestion field starts
MaxSearches == 3    \* searches the user starts
TickMinutes == 30   \* minutes per tick

\* ---- program constants ----
MsPerMinute == 60000
Null == 0 - 1       \* SQL NULL / JS null in a cursor column
BadDate == 0 - 2    \* a date string Date.parse cannot read
NaN == 0 - 3        \* the number Date.parse returns for it

Cycles == 1..MaxCycles
Callers == 1..MaxCallers
Ticks == 0..MaxNow

\* eBird's checklists: one observed at each tick, and one whose obsDt does not parse
SubIds == 1..(MaxNow + 2)
ObsDtOf(subId) == IF subId = MaxNow + 2 THEN BadDate ELSE subId - 1

\* index.js passes MIN_NOTIFICATION_MINUTES (default '60'); 0 disables the gate
MinimumNotificationChoices == {0, 60}

VARIABLES
    fixed,          \* TRUE while the feed is held fixed between fetches
    world,          \* the response eBird serves while the feed is held fixed
    store,          \* table subscriptions: id -> row
    nextId,         \* AUTOINCREMENT counter
    now,            \* wall clock, in ticks
    ebirdApiKey,    \* TRUE iff EBIRD_API_KEY was set when the process was started
    scheduled,      \* TRUE iff cron.schedule has registered the callback of line 121
    twilioClient,   \* TRUE iff twilioClient is non-null
    twilioFromNumber,           \* TRUE iff twilioFromNumber is non-empty
    minimumNotificationMinutes,
    pc,             \* per execute(): "idle", "fetch" (awaiting the feed), "send" (awaiting Twilio)
    subscriptions,  \* per execute(): the rows listSubscriptions() returned
    idx,            \* per execute(): position of the for-loop in subscriptions
    newSightings,   \* per execute(): the filtered batch of the current subscription
    sent,           \* history: per execute(), the ids messaged so far in its current run
    failedEarlier,  \* history: per execute(), how rows of its run that were not the last threw
    ev,             \* history: what the notifier step just taken did (NoEvent otherwise)
    lastDispatch,   \* history: the most recent pass through lines 90-111
    response,       \* the body eBird returns to a feed client's request
    observations,   \* what fetchRecentObservations returned to its caller
    client,         \* which feed client returned observations: "none", "backend", "ui"
    speciesCatalog,         \* UI module variable: NoCatalog or the catalog array
    speciesCatalogPromise,  \* UI module variable: Null or the load in flight
    loads,          \* the taxonomy requests issued so far: "pending", "fulfilled", "rejected"
    callers,        \* per caller of loadSpeciesCatalog: where it is and what it received
    reqBody,        \* the JSON body of a POST /api/subscriptions that has arrived (NoBody: none)
    lookup,         \* App: per suggestion field, its input, selection, effect runs and display
    cooldown        \* App: isCooldown, cooldownSeconds, the two refs and the browser's timers

\* the state of the UI's eBird module and of the feed clients' callers
browser == <<response, observations, client, speciesCatalog, speciesCatalogPromise,
             loads, callers>>

\* the state of the App component
app == <<lookup, cooldown>>

vars == <<fixed, world, store, nextId, now, ebirdApiKey, scheduled, twilioClient, twilioFromNumber, minimumNotificationMinutes,
          pc, subscriptions, idx, newSightings, sent, failedEarlier, ev, lastDispatch, browser, reqBody, app>>

config == <<fixed, ebirdApiKey, scheduled, twilioClient, twilioFromNumber,
           minimumNotificationMinutes, browser, reqBody, app>>
\* the state of the backend process and of its database
server == <<fixed, world, store, nextId, now, ebirdApiKey, scheduled, twilioClient,
            twilioFromNumber, minimumNotificationMinutes, pc, subscriptions, idx,
            newSightings, sent, failedEarlier, ev, lastDispatch, reqBody>>
locals == <<pc, subscriptions, idx, newSightings>>

\* ---- helpers ----
Truthy(x) == x # Null

IsFinite(x) == x # NaN

DateParse(s) == IF s = BadDate THEN NaN ELSE s * TickMinutes * MsPerMinute

NowISO == now

\* feed responses: arrays of at most MaxFeed observations of distinct checklists
Feeds(max) ==
    UNION {{[i \in 1..n |-> [subId |-> f[i], obsDt |-> ObsDtOf(f[i])]] :
              f \in {g \in [1..n -> SubIds] : \A i, j \in 1..n : i # j => g[i] # g[j]}} :
           n \in 0..max}


\* ---- db.js ----
\* the radiusMiles of the payload that creates row id (index.js line 33: a positive
\* integer of at most 200), one value per request
RadiusMilesOf(id) == 5 * id

\* index.js line 34: lookBackDays ... .default(3)
DefaultLookBackDays == 3

\* createSubscription: the inserted row (radiusMiles stands for the columns that come
\* from the payload; createdAt is represented by the id, which grows with it)
NewRow(id) ==
    [id |-> id, radiusMiles |-> RadiusMilesOf(id), lookBackDays |-> DefaultLookBackDays,
     lastObservationId |-> Null, lastNotifiedAt |-> Null]

\* history values for "nothing dispatched yet" and for steps outside the loop body
NoDispatch == [id |-> 0, listed |-> NewRow(0), batch |-> <<>>, result |-> "none", at |-> 0]

Plain(c, state) ==
    [c |-> c, id |-> 0, listed |-> NewRow(0), state |-> state, cause |-> "none",
     primary |-> 0, extras |-> 0, messaged |-> FALSE]

NoEvent == Plain(0, "none")

\* speciesCatalog while it is null (an array, empty or not, is another value)
NoCatalog == [load |-> 0, length |-> 0 - 1]

\* a number of a JSON body: n when half is FALSE, n + 0.5 when it is TRUE
Num(n) == [n |-> n, half |-> FALSE]
Half(n) == [n |-> n, half |-> TRUE]

\* no request body is waiting for the POST handler
NoBody == [phone |-> [length |-> 0, shape |-> "none"], speciesCode |-> 0,
           latitude |-> Num(0), longitude |-> Num(0), radiusMiles |-> Num(0),
           lookBackDays |-> Num(0), hasLookBackDays |-> FALSE, arrived |-> FALSE]

\* a caller that is not inside loadSpeciesCatalog and holds no result
Outside == [pc |-> "out", load |-> 0, got |-> "none", from |-> 0]

RECURSIVE Descending(_)
Descending(ids) ==
    IF ids = {} THEN <<>>
    ELSE LET m == CHOOSE i \in ids : \A j \in ids : j <= i
         IN <<m>> \o Descending(ids \ {m})

\* listSubscriptions: SELECT * ... ORDER BY createdAt DESC, newest row first
listSubscriptions ==
    [i \in 1..Cardinality(DOMAIN store) |-> store[Descending(DOMAIN store)[i]]]

\* mutant: the statement sets lastObservationId and leaves lastNotifiedAt alone
UpdateStmtIdOnly(id, observationId, lastNotifiedAt) ==
    [i \in DOMAIN store |->
        IF i = id
          THEN [store[i] EXCEPT !.lastObservationId = observationId]
          ELSE store[i]]

\* mutant: INSERT OR REPLACE instead of UPDATE, a row appears when none has the id
UpdateStmtUpsert(id, observationId, lastNotifiedAt) ==
    [i \in DOMAIN store \cup {id} |->
        IF i = id
          THEN [id |-> id, radiusMiles |-> RadiusMilesOf(id),
                lookBackDays |-> DefaultLookBackDays,
                lastObservationId |-> observationId, lastNotifiedAt |-> lastNotifiedAt]
          ELSE store[i]]

\* mutant: REPLACE INTO subscriptions (id, lastObservationId, lastNotifiedAt): the row
\* with the id is replaced and its other columns are lost
UpdateStmtReplaceRow(id, observationId, lastNotifiedAt) ==
    [i \in DOMAIN store |->
        IF i = id
          THEN [id |-> id, radiusMiles |-> Null, lookBackDays |-> Null,
                lastObservationId |-> observationId, lastNotifiedAt |-> lastNotifiedAt]
          ELSE store[i]]

\* UPDATE subscriptions SET lastObservationId = .., lastNotifiedAt = .. WHERE id = ..
UpdateStmt(id, observationId, lastNotifiedAt) ==
    [i \in DOMAIN store |->
        IF i = id
          THEN [store[i] EXCEPT !.lastObservationId = observationId,
                                !.lastNotifiedAt = lastNotifiedAt]
          ELSE store[i]]

\* mutant: lastNotifiedAt takes the sighting's obsDt instead of the time of the write
updateWithObservedAt(id, observationId) ==
    UpdateStmt(id, observationId, ObsDtOf(observationId))

updateSubscriptionLastObservation(id, observationId) ==
    UpdateStmt(id, observationId, NowISO)

\* ---- notifier.js, the body of the for-loop ----
\* mutant: the filter drops a sighting only when it is older than lastNotifiedAt (< for <=)
IsNewSightingOrSameTime(subscription, observation) ==
    IF Truthy(subscription.lastObservationId)
           /\ observation.subId = subscription.lastObservationId
      THEN FALSE
      ELSE IF Truthy(subscription.lastNotifiedAt)
                 /\ IsFinite(DateParse(observation.obsDt))
                 /\ DateParse(observation.obsDt) < DateParse(subscription.lastNotifiedAt)
             THEN FALSE
             ELSE TRUE

\* mutant: the filter compares times only and never the checklist id
IsNewSightingByTimeOnly(subscription, observation) ==
    IF Truthy(subscription.lastNotifiedAt)
           /\ IsFinite(DateParse(observation.obsDt))
           /\ DateParse(observation.obsDt) <= DateParse(subscription.lastNotifiedAt)
      THEN FALSE
      ELSE TRUE

\* the filter callback of lines 62-73
IsNewSighting(subscription, observation) ==
    IF Truthy(subscription.lastObservationId)
           /\ observation.subId = subscription.lastObservationId
      THEN FALSE
      ELSE IF Truthy(subscription.lastNotifiedAt)
                 /\ IsFinite(DateParse(observation.obsDt))
                 /\ DateParse(observation.obsDt) <= DateParse(subscription.lastNotifiedAt)
             THEN FALSE
             ELSE TRUE

FilterNew(subscription, feed) ==
    SelectSeq(feed, LAMBDA o : IsNewSighting(subscription, o))

\* mutant: the guard on lastNotifiedAt is gone and new Date(null), the epoch, is the
\* time of the last notification of a row that has none
TooSoonUnsetAsEpoch(subscription, batch) ==
    /\ minimumNotificationMinutes > 0
    /\ IsFinite(DateParse(batch[1].obsDt))
    /\ DateParse(batch[1].obsDt)
           - (IF Truthy(subscription.lastNotifiedAt)
                THEN DateParse(subscription.lastNotifiedAt) ELSE 0)
           < minimumNotificationMinutes * MsPerMinute

\* mutant: the gate refuses a gap equal to the minimum (<= for <)
TooSoonInclusive(subscription, batch) ==
    /\ Truthy(subscription.lastNotifiedAt)
    /\ minimumNotificationMinutes > 0
    /\ IsFinite(DateParse(subscription.lastNotifiedAt))
    /\ IsFinite(DateParse(batch[1].obsDt))
    /\ DateParse(batch[1].obsDt) - DateParse(subscription.lastNotifiedAt)
           <= minimumNotificationMinutes * MsPerMinute

\* lines 79-88: TRUE when the batch is suppressed.  minutesSinceLast < minimum is
\* compared in milliseconds, which is the same comparison multiplied by MsPerMinute.
TooSoon(subscription, batch) ==
    /\ Truthy(subscription.lastNotifiedAt)
    /\ minimumNotificationMinutes > 0
    /\ IsFinite(DateParse(subscription.lastNotifiedAt))
    /\ IsFinite(DateParse(batch[1].obsDt))
    /\ DateParse(batch[1].obsDt) - DateParse(subscription.lastNotifiedAt)
           < minimumNotificationMinutes * MsPerMinute

\* mutant: the comparison of the first entry with lastObservationId (lines 53-60) is gone
ReachesDispatchNoLatestCheck(subscription, feed) ==
    /\ Len(feed) > 0
    /\ Len(FilterNew(subscription, feed)) > 0
    /\ ~TooSoon(subscription, FilterNew(subscription, feed))

\* mutant: line 56 reads !subscription.lastObservationId || ..., so a row with an unset
\* cursor is skipped
ReachesDispatchNeedsCursor(subscription, feed) ==
    /\ Len(feed) > 0
    /\ Truthy(subscription.lastObservationId)
    /\ subscription.lastObservationId # feed[1].subId
    /\ Len(FilterNew(subscription, feed)) > 0
    /\ ~TooSoon(subscription, FilterNew(subscription, feed))

\* lines 49-88: TRUE when the loop body reaches line 90 for this feed response
ReachesDispatch(subscription, feed) ==
    /\ Len(feed) > 0
    /\ ~(Truthy(subscription.lastObservationId)
           /\ subscription.lastObservationId = feed[1].subId)
    /\ Len(FilterNew(subscription, feed)) > 0
    /\ ~TooSoon(subscription, FilterNew(subscription, feed))

\* lines 53-73: the batch the loop body has computed when it stops or goes on
LoopBatch(subscription, feed) ==
    IF Len(feed) = 0
         \/ (Truthy(subscription.lastObservationId)
               /\ subscription.lastObservationId = feed[1].subId)
      THEN <<>>
      ELSE FilterNew(subscription, feed)

\* line 90: the message is sent only with a client and a from-number
SmsEnabled == twilioClient /\ twilioFromNumber

\* lines 91-108: the one message built from the batch
Message(subscription, batch) ==
    [to |-> subscription.id, primary |-> batch[1].subId, extras |-> Len(batch) - 1]

Current(c) == subscriptions[c][idx[c]]

\* ---- state machine ----
\* Twilio credentials complete, or the from-number or the client missing
Configs ==
    {<<TRUE, TRUE, m>> : m \in MinimumNotificationChoices}
        \cup {<<TRUE, FALSE, 60>>, <<FALSE, FALSE, 60>>}

\* the suggestion fields of the App
Fields == {"location", "species"}

\* a field as first rendered: empty input, nothing selected, no effect run with a
\* lookup, nothing displayed
FreshLookup ==
    [input |-> "", selection |-> "none", runs |-> <<>>,
     suggestions |-> [run |-> 0, kind |-> "none"], error |-> [run |-> 0, kind |-> "none"],
     loading |-> FALSE]

\* part_001 lines 164-167: no cooldown, no timer
NoCooldown ==
    [isCooldown |-> FALSE, cooldownSeconds |-> 0, cooldownTimeoutRef |-> 0,
     cooldownIntervalRef |-> 0, timeouts |-> {}, intervals |-> {}, nextTimer |-> 1,
     searchState |-> "idle", errorMessage |-> "none", searches |-> 0, inFlight |-> 0]

\* the App as first rendered
AppIdle ==
    /\ lookup = [f \in Fields |-> FreshLookup]
    /\ cooldown = NoCooldown

\* no feed client has been called
FeedIdle ==
    /\ response = <<>>
    /\ observations = <<>>
    /\ client = "none"

\* the UI module as loaded: lines 54-55, and no call of loadSpeciesCatalog yet
CatalogIdle ==
    /\ speciesCatalog = NoCatalog
    /\ speciesCatalogPromise = Null
    /\ loads = <<>>
    /\ callers = [k \in Callers |-> Outside]

\* A fresh database: startNotifier has run, and its startup execute() found no rows.
ServerInit(held) ==
    /\ fixed = held
    /\ world = <<>>
    /\ store = [i \in {} |-> NewRow(i)]
    /\ nextId = 1
    /\ now = 0
    /\ ebirdApiKey = TRUE
    /\ scheduled = TRUE
    /\ \E cfg \in Configs :
          /\ twilioClient = cfg[1]
          /\ twilioFromNumber = cfg[2]
          /\ minimumNotificationMinutes = cfg[3]
    /\ pc = [c \in Cycles |-> "idle"]
    /\ subscriptions = [c \in Cycles |-> <<>>]
    /\ idx = [c \in Cycles |-> 0]
    /\ newSightings = [c \in Cycles |-> <<>>]
    /\ sent = [c \in Cycles |-> {}]
    /\ failedEarlier = [c \in Cycles |-> {}]
    /\ ev = NoEvent
    /\ lastDispatch = NoDispatch

InitWith(held) == ServerInit(held) /\ FeedIdle /\ CatalogIdle /\ reqBody = NoBody /\ AppIdle

\* the wall clock advances
Tick ==
    /\ now < MaxNow
    /\ now' = now + 1
    /\ ev' = NoEvent
    /\ UNCHANGED <<store, nextId, config, locals, sent, failedEarlier, world, lastDispatch>>

\* POST /api/subscriptions with a valid payload
CreateSubscription ==
    /\ store' = [i \in DOMAIN store \cup {nextId} |->
                    IF i = nextId THEN NewRow(i) ELSE store[i]]
    /\ nextId' = nextId + 1
    /\ ev' = NoEvent
    /\ UNCHANGED <<now, config, locals, sent, failedEarlier, world, lastDispatch>>

\* DELETE /api/subscriptions/:id
DeleteSubscription(id) ==
    /\ id \in DOMAIN store
    /\ store' = [i \in DOMAIN store \ {id} |-> store[i]]
    /\ ev' = NoEvent
    /\ UNCHANGED <<nextId, now, config, locals, sent, failedEarlier, world, lastDispatch>>

\* lines 33-40 of execute(): list, return when empty, else issue the first fetch
Execute(c) ==
    /\ subscriptions' = [subscriptions EXCEPT ![c] = listSubscriptions]
    /\ idx' = [idx EXCEPT ![c] = IF Len(listSubscriptions) = 0 THEN 0 ELSE 1]
    /\ pc' = [pc EXCEPT ![c] = IF Len(listSubscriptions) = 0 THEN "idle" ELSE "fetch"]
    /\ sent' = [sent EXCEPT ![c] = {}]
    /\ failedEarlier' = [failedEarlier EXCEPT ![c] = {}]
    /\ ev' = Plain(c, "Started")
    /\ UNCHANGED newSightings

\* the cron callback of lines 121-125 (the lowest free slot holds the new invocation)
CronTrigger(c) ==
    /\ scheduled
    /\ pc[c] = "idle"
    /\ \A d \in Cycles : d < c => pc[d] # "idle"
    /\ Execute(c)
    /\ UNCHANGED <<store, nextId, now, config, world, lastDispatch>>

\* mutant: the cron callback calls execute() without .catch, so the rejection is
\* unhandled and ends the process
CronListErrorUnhandled(c) ==
    /\ scheduled
    /\ pc[c] = "idle"
    /\ \A d \in Cycles : d < c => pc[d] # "idle"
    /\ pc' = [d \in Cycles |-> "dead"]
    /\ ev' = Plain(c, "Unhandled")
    /\ UNCHANGED <<store, nextId, now, config, world, lastDispatch,
                   subscriptions, idx, newSightings, sent, failedEarlier>>

\* the cron callback fires and listSubscriptions() throws at line 33, outside the try
\* block: execute() rejects and the .catch of lines 122-124 logs the error
CronListError(c) ==
    /\ scheduled
    /\ pc[c] = "idle"
    /\ \A d \in Cycles : d < c => pc[d] # "idle"
    /\ ev' = Plain(c, "Rejected")
    /\ UNCHANGED <<store, nextId, now, config, world, lastDispatch, locals, sent,
                   failedEarlier>>

\* mutant: a row that ended in the catch block is processed again at once
AdvanceAgain(c) ==
    /\ newSightings' = [newSightings EXCEPT ![c] = <<>>]
    /\ IF ev'.state = "Failed"
         THEN /\ pc' = [pc EXCEPT ![c] = "fetch"]
              /\ UNCHANGED <<idx, subscriptions>>
         ELSE IF idx[c] < Len(subscriptions[c])
           THEN /\ idx' = [idx EXCEPT ![c] = @ + 1]
                /\ pc' = [pc EXCEPT ![c] = "fetch"]
                /\ UNCHANGED subscriptions
           ELSE /\ idx' = [idx EXCEPT ![c] = 0]
                /\ pc' = [pc EXCEPT ![c] = "idle"]
                /\ subscriptions' = [subscriptions EXCEPT ![c] = <<>>]

\* the for-loop moves to the next row and issues its fetch, or execute() returns
Advance(c) ==
    /\ newSightings' = [newSightings EXCEPT ![c] = <<>>]
    /\ IF idx[c] < Len(subscriptions[c])
         THEN /\ idx' = [idx EXCEPT ![c] = @ + 1]
              /\ pc' = [pc EXCEPT ![c] = "fetch"]
              /\ UNCHANGED subscriptions
         ELSE /\ idx' = [idx EXCEPT ![c] = 0]
              /\ pc' = [pc EXCEPT ![c] = "idle"]
              /\ subscriptions' = [subscriptions EXCEPT ![c] = <<>>]

\* history of one step of the loop body: which row, how it ended, what was sent
Event(c, state, cause, batch, messaged) ==
    [c |-> c, id |-> Current(c).id, listed |-> Current(c), state |-> state, cause |-> cause,
     primary |-> IF Len(batch) = 0 THEN 0 ELSE batch[1].subId,
     extras |-> IF Len(batch) = 0 THEN 0 ELSE Len(batch) - 1,
     messaged |-> messaged]

\* history of one pass through lines 90-111, kept while the feed is held fixed
Dispatched(subscription, batch, result) ==
    IF fixed
      THEN [id |-> subscription.id, listed |-> subscription, batch |-> batch,
            result |-> result, at |-> now]
      ELSE NoDispatch

\* a message accepted by Twilio is remembered until execute() returns; the cause of an
\* exception in a row that has rows after it is remembered until execute() is called again
Remember(c, ids) ==
    /\ sent' = [sent EXCEPT ![c] = IF idx[c] < Len(subscriptions[c]) THEN @ \cup ids ELSE {}]
    /\ failedEarlier' =
           [failedEarlier EXCEPT ![c] =
               IF ev'.state = "Failed" /\ idx[c] < Len(subscriptions[c])
                 THEN @ \cup {ev'.cause} ELSE @]

\* mutant: the commit stores the obsDt of the primary sighting as lastNotifiedAt
CommitObservedAt(c, batch, messaged) ==
    /\ store' = UpdateStmt(Current(c).id, batch[1].subId, batch[1].obsDt)
    /\ lastDispatch' = Dispatched(Current(c), batch, "Committed")
    /\ ev' = Event(c, "Committed", "none", batch, messaged)
    /\ Advance(c)

\* mutant: line 111 passes the last sighting of the batch instead of the first
CommitLastOfBatch(c, batch, messaged) ==
    /\ store' = updateSubscriptionLastObservation(Current(c).id, batch[Len(batch)].subId)
    /\ lastDispatch' = Dispatched(Current(c), batch, "Committed")
    /\ ev' = Event(c, "Committed", "none", batch, messaged)
    /\ Advance(c)

\* line 111 returns: the cursor write, then the next row
Commit(c, batch, messaged) ==
    /\ store' = updateSubscriptionLastObservation(Current(c).id, batch[1].subId)
    /\ lastDispatch' = Dispatched(Current(c), batch, "Committed")
    /\ ev' = Event(c, "Committed", "none", batch, messaged)
    /\ Advance(c)

\* mutant: the update is two statements and the second one throws
StoreErrorPartial(c, batch, messaged) ==
    /\ store' = [i \in DOMAIN store |->
                    IF i = Current(c).id
                      THEN [store[i] EXCEPT !.lastObservationId = batch[1].subId]
                      ELSE store[i]]
    /\ lastDispatch' = Dispatched(Current(c), batch, "StoreFailed")
    /\ ev' = Event(c, "Failed", "store", batch, messaged)
    /\ Advance(c)

\* line 111 throws: the catch of lines 112-117, then the next row
StoreError(c, batch, messaged) ==
    /\ lastDispatch' = Dispatched(Current(c), batch, "StoreFailed")
    /\ ev' = Event(c, "Failed", "store", batch, messaged)
    /\ Advance(c)
    /\ UNCHANGED store

\* the fetch of lines 40-47 resolves with an array; the loop body runs to its next await
FetchResolve(c, feed) ==
    /\ pc[c] = "fetch"
    /\ IF ~ReachesDispatch(Current(c), feed)
         THEN /\ ev' = Event(c, "Throttled", "none", LoopBatch(Current(c), feed), FALSE)
              /\ Advance(c)
              /\ Remember(c, {})
              /\ UNCHANGED <<store, lastDispatch>>
         ELSE IF SmsEnabled
           THEN /\ pc' = [pc EXCEPT ![c] = "send"]
                /\ newSightings' = [newSightings EXCEPT ![c] = FilterNew(Current(c), feed)]
                /\ ev' = Event(c, "Dispatching", "none", FilterNew(Current(c), feed), FALSE)
                /\ UNCHANGED <<store, subscriptions, idx, sent, failedEarlier, lastDispatch>>
           ELSE /\ Commit(c, FilterNew(Current(c), feed), FALSE)
                /\ Remember(c, {})
    /\ UNCHANGED <<nextId, now, config, world>>

\* the same with SMS disabled and the cursor write of line 111 throwing
FetchResolveStoreError(c, feed) ==
    /\ pc[c] = "fetch"
    /\ ReachesDispatch(Current(c), feed)
    /\ ~SmsEnabled
    /\ StoreError(c, FilterNew(Current(c), feed), FALSE)
    /\ Remember(c, {})
    /\ UNCHANGED <<nextId, now, config, world>>

\* the fetch resolves with JSON that is not an array (line 49)
FetchResolveNonArray(c) ==
    /\ pc[c] = "fetch"
    /\ ev' = Event(c, "Throttled", "notArray", <<>>, FALSE)
    /\ Advance(c)
    /\ Remember(c, {})
    /\ UNCHANGED <<store, nextId, now, config, world, lastDispatch>>

\* ebird.js, fetchRecentObservations: response.ok, true for the statuses 200-299 only
ResponseOk(status) == status \in 200..299

\* eBird answers 404 Not Found: the client has no branch for it, `!response.ok` throws
\* like for any other failure status, and the catch of lines 112-117 takes the row
FetchNotFound(c) ==
    /\ pc[c] = "fetch"
    /\ ~ResponseOk(404)
    /\ ev' = Event(c, "Failed", "notFound", <<>>, FALSE)
    /\ Advance(c)
    /\ Remember(c, {})
    /\ UNCHANGED <<store, nextId, now, config, world, lastDispatch>>

\* mutant: the try block encloses the for-loop, so the exception ends execute()
FetchRejectAborts(c) ==
    /\ pc[c] = "fetch"
    /\ ev' = Event(c, "Failed", "fetch", <<>>, FALSE)
    /\ newSightings' = [newSightings EXCEPT ![c] = <<>>]
    /\ idx' = [idx EXCEPT ![c] = 0]
    /\ pc' = [pc EXCEPT ![c] = "idle"]
    /\ subscriptions' = [subscriptions EXCEPT ![c] = <<>>]
    /\ sent' = [sent EXCEPT ![c] = {}]
    /\ UNCHANGED <<store, nextId, now, config, world, failedEarlier, lastDispatch>>

\* fetchRecentObservations throws (network error, or a failure status other than 404)
FetchReject(c) ==
    /\ pc[c] = "fetch"
    /\ ev' = Event(c, "Failed", "fetch", <<>>, FALSE)
    /\ Advance(c)
    /\ Remember(c, {})
    /\ UNCHANGED <<store, nextId, now, config, world, lastDispatch>>

\* mutant: one message per new sighting instead of one per batch
SendResolvePerSighting(c) ==
    /\ pc[c] = "send"
    /\ IF Len(newSightings[c]) > 1
         THEN /\ newSightings' = [newSightings EXCEPT ![c] = Tail(@)]
              /\ sent' = [sent EXCEPT ![c] = @ \cup {Current(c).id}]
              /\ ev' = Event(c, "Dispatching", "none", newSightings[c], TRUE)
              /\ UNCHANGED <<store, pc, subscriptions, idx, failedEarlier, lastDispatch>>
         ELSE /\ Commit(c, newSightings[c], TRUE)
              /\ Remember(c, {Current(c).id})
    /\ UNCHANGED <<nextId, now, config, world>>

\* messages.create resolves; line 111 writes the cursor
SendResolve(c) ==
    /\ pc[c] = "send"
    /\ Commit(c, newSightings[c], TRUE)
    /\ Remember(c, {Current(c).id})
    /\ UNCHANGED <<nextId, now, config, world>>

\* mutant: the write of lastObservationId lands before the exception of line 111
SendResolveStoreErrorHalfWritten(c) ==
    /\ pc[c] = "send"
    /\ store' = [i \in DOMAIN store |->
                    IF i = Current(c).id
                      THEN [store[i] EXCEPT !.lastObservationId = newSightings[c][1].subId]
                      ELSE store[i]]
    /\ lastDispatch' = Dispatched(Current(c), newSightings[c], "StoreFailed")
    /\ ev' = Event(c, "Failed", "store", newSightings[c], TRUE)
    /\ Advance(c)
    /\ Remember(c, {Current(c).id})
    /\ UNCHANGED <<nextId, now, config, world>>

\* messages.create resolves; line 111 throws
SendResolveStoreError(c) ==
    /\ pc[c] = "send"
    /\ StoreError(c, newSightings[c], TRUE)
    /\ Remember(c, {Current(c).id})
    /\ UNCHANGED <<nextId, now, config, world>>

\* mutant: the cursor write sits in a finally block and runs after a failed send too
SendRejectWrites(c) ==
    /\ pc[c] = "send"
    /\ store' = updateSubscriptionLastObservation(Current(c).id, newSightings[c][1].subId)
    /\ lastDispatch' = Dispatched(Current(c), newSightings[c], "SendFailed")
    /\ ev' = Event(c, "Failed", "send", newSightings[c], FALSE)
    /\ Advance(c)
    /\ Remember(c, {})
    /\ UNCHANGED <<nextId, now, config, world>>

\* mutant: a rejected send leaves the invocation waiting for ever, and with it the slot
SendRejectWedges(c) ==
    /\ pc[c] = "send"
    /\ pc' = [pc EXCEPT ![c] = "wedged"]
    /\ lastDispatch' = Dispatched(Current(c), newSightings[c], "SendFailed")
    /\ ev' = Event(c, "Failed", "send", newSightings[c], FALSE)
    /\ UNCHANGED <<store, nextId, now, config, world, subscriptions, idx, newSightings,
                   sent, failedEarlier>>

\* mutant: the catch block stamps lastNotifiedAt with the time of the failed attempt
SendRejectStamps(c) ==
    /\ pc[c] = "send"
    /\ store' = [i \in DOMAIN store |->
                    IF i = Current(c).id
                      THEN [store[i] EXCEPT !.lastNotifiedAt = NowISO]
                      ELSE store[i]]
    /\ lastDispatch' = Dispatched(Current(c), newSightings[c], "SendFailed")
    /\ ev' = Event(c, "Failed", "send", newSightings[c], FALSE)
    /\ Advance(c)
    /\ Remember(c, {})
    /\ UNCHANGED <<nextId, now, config, world>>

\* mutant: a rejected send is attempted again within the same iteration
SendRejectSendsAgain(c) ==
    /\ pc[c] = "send"
    /\ lastDispatch' = Dispatched(Current(c), newSightings[c], "SendFailed")
    /\ ev' = Event(c, "Failed", "send", newSightings[c], FALSE)
    /\ UNCHANGED <<store, nextId, now, config, world, locals, sent, failedEarlier>>

\* messages.create rejects: the catch of lines 112-117
SendReject(c) ==
    /\ pc[c] = "send"
    /\ lastDispatch' = Dispatched(Current(c), newSightings[c], "SendFailed")
    /\ ev' = Event(c, "Failed", "send", newSightings[c], FALSE)
    /\ Advance(c)
    /\ Remember(c, {})
    /\ UNCHANGED <<store, nextId, now, config, world>>

\* mutant: the cursors live in memory only, so the rows listed after a restart have none
RestartForgetsCursors ==
    /\ ebirdApiKey
    /\ subscriptions' = [c \in Cycles |->
                           IF c = 1
                             THEN [i \in 1..Len(listSubscriptions) |->
                                      NewRow(listSubscriptions[i].id)]
                             ELSE <<>>]
    /\ idx' = [c \in Cycles |-> IF c = 1 /\ Len(listSubscriptions) > 0 THEN 1 ELSE 0]
    /\ pc' = [c \in Cycles |->
                IF c = 1 /\ Len(listSubscriptions) > 0 THEN "fetch" ELSE "idle"]
    /\ newSightings' = [c \in Cycles |-> <<>>]
    /\ sent' = [c \in Cycles |-> {}]
    /\ failedEarlier' = [c \in Cycles |-> {}]
    /\ ev' = Plain(1, "Restarted")
    /\ UNCHANGED <<store, nextId, now, config, world, lastDispatch>>

\* mutant: startNotifier registers the schedule and leaves the first run to the cron
RestartWaitsForCron ==
    /\ ebirdApiKey
    /\ subscriptions' = [c \in Cycles |-> <<>>]
    /\ idx' = [c \in Cycles |-> 0]
    /\ pc' = [c \in Cycles |-> "idle"]
    /\ newSightings' = [c \in Cycles |-> <<>>]
    /\ sent' = [c \in Cycles |-> {}]
    /\ failedEarlier' = [c \in Cycles |-> {}]
    /\ ev' = Plain(1, "Restarted")
    /\ UNCHANGED <<store, nextId, now, config, world, lastDispatch>>

\* the process stops and is started again: every invocation in flight is gone, the
\* database file stays, and startNotifier runs execute() once (line 128)
Restart ==
    /\ ebirdApiKey
    /\ subscriptions' = [c \in Cycles |-> IF c = 1 THEN listSubscriptions ELSE <<>>]
    /\ idx' = [c \in Cycles |-> IF c = 1 /\ Len(listSubscriptions) > 0 THEN 1 ELSE 0]
    /\ pc' = [c \in Cycles |->
                IF c = 1 /\ Len(listSubscriptions) > 0 THEN "fetch" ELSE "idle"]
    /\ newSightings' = [c \in Cycles |-> <<>>]
    /\ sent' = [c \in Cycles |-> {}]
    /\ failedEarlier' = [c \in Cycles |-> {}]
    /\ ev' = Plain(1, "Restarted")
    /\ UNCHANGED <<store, nextId, now, config, world, lastDispatch>>

\* the process is started again and listSubscriptions() throws in the startup run:
\* the .catch of lines 128-130 logs the error and startNotifier returns
StartupListError ==
    /\ ebirdApiKey
    /\ subscriptions' = [c \in Cycles |-> <<>>]
    /\ idx' = [c \in Cycles |-> 0]
    /\ pc' = [c \in Cycles |-> "idle"]
    /\ newSightings' = [c \in Cycles |-> <<>>]
    /\ sent' = [c \in Cycles |-> {}]
    /\ failedEarlier' = [c \in Cycles |-> {}]
    /\ ev' = Plain(1, "Rejected")
    /\ UNCHANGED <<store, nextId, now, config, world, lastDispatch>>

\* index.js: the process is alive only if startNotifier returned (an exception thrown
\* by it at the top level of the module ends the process)
ProcessUp == ebirdApiKey

\* mutant: the check of the key comes after cron.schedule and the startup execute()
RestartWithoutKeyChecksLate ==
    /\ ebirdApiKey
    /\ ebirdApiKey' = FALSE
    /\ scheduled' = TRUE
    /\ subscriptions' = [c \in Cycles |-> IF c = 1 THEN listSubscriptions ELSE <<>>]
    /\ idx' = [c \in Cycles |-> IF c = 1 /\ Len(listSubscriptions) > 0 THEN 1 ELSE 0]
    /\ pc' = [c \in Cycles |->
                IF c = 1 /\ Len(listSubscriptions) > 0 THEN "fetch" ELSE "idle"]
    /\ newSightings' = [c \in Cycles |-> <<>>]
    /\ sent' = [c \in Cycles |-> {}]
    /\ failedEarlier' = [c \in Cycles |-> {}]
    /\ ev' = Plain(0, "Refused")
    /\ UNCHANGED <<fixed, twilioClient, twilioFromNumber, minimumNotificationMinutes,
                   store, nextId, now, world, lastDispatch, browser, reqBody, app>>

\* the process stops and is started again with EBIRD_API_KEY unset: startNotifier
\* throws at line 18, before cron.schedule (line 121) and before execute() (line 128)
RestartWithoutKey ==
    /\ ebirdApiKey
    /\ ebirdApiKey' = FALSE
    /\ scheduled' = FALSE
    /\ subscriptions' = [c \in Cycles |-> <<>>]
    /\ idx' = [c \in Cycles |-> 0]
    /\ pc' = [c \in Cycles |-> "idle"]
    /\ newSightings' = [c \in Cycles |-> <<>>]
    /\ sent' = [c \in Cycles |-> {}]
    /\ failedEarlier' = [c \in Cycles |-> {}]
    /\ ev' = Plain(0, "Refused")
    /\ UNCHANGED <<fixed, twilioClient, twilioFromNumber, minimumNotificationMinutes,
                   store, nextId, now, world, lastDispatch, browser, reqBody, app>>

\* eBird's data changes between two polls: the held response is replaced
FeedChanges(feed) ==
    /\ fixed
    /\ \A c \in Cycles : pc[c] = "idle"
    /\ feed # world
    /\ world' = feed
    /\ lastDispatch' = NoDispatch
    /\ ev' = NoEvent
    /\ UNCHANGED <<store, nextId, now, config, locals, sent, failedEarlier>>

\* the management endpoints, the clock and a restart
Environment(subs) ==
    \/ Tick
    \/ ProcessUp /\ nextId <= subs /\ CreateSubscription
    \/ \E id \in 1..subs : ProcessUp /\ DeleteSubscription(id)
    \/ Restart
    \/ StartupListError
    \/ RestartWithoutKey

\* the notifier, with invocations cs in flight and feed responses from feeds
Notifier(cs, feeds) ==
    \/ \E c \in cs : CronTrigger(c)
    \/ \E c \in cs : CronListError(c)
    \/ \E c \in cs, feed \in feeds : FetchResolve(c, feed)
    \/ \E c \in cs, feed \in feeds : FetchResolveStoreError(c, feed)
    \/ \E c \in cs : FetchResolveNonArray(c)
    \/ \E c \in cs : FetchReject(c)
    \/ \E c \in cs : FetchNotFound(c)
    \/ \E c \in cs : SendResolve(c)
    \/ \E c \in cs : SendResolveStoreError(c)
    \/ \E c \in cs : SendReject(c)

Init == InitWith(FALSE)

\* cron firing while earlier invocations still await the feed or Twilio
Next == Environment(MaxOverlapSubs) \/ Notifier(Cycles, Feeds(MaxFeed))

Spec == Init /\ [][Next]_vars

\* invocations one at a time, several subscriptions
NextSeq == Environment(MaxSubs) \/ Notifier({1}, Feeds(MaxFeed))

SpecSeq == Init /\ [][NextSeq]_vars

\* invocations one at a time over a feed that stays the same from fetch to fetch
InitReplay == InitWith(TRUE)

NextReplay ==
    \/ Environment(MaxOverlapSubs)
    \/ CronTrigger(1)
    \/ CronListError(1)
    \/ FetchResolve(1, world)
    \/ FetchResolveStoreError(1, world)
    \/ FetchResolveNonArray(1)
    \/ FetchReject(1)
    \/ FetchNotFound(1)
    \/ SendResolve(1)
    \/ SendResolveStoreError(1)
    \/ SendReject(1)
    \/ \E feed \in Feeds(MaxHeld) : FeedChanges(feed)

SpecReplay == InitReplay /\ [][NextReplay]_vars

\* invocations overlapping over several subscriptions, with the Twilio credentials
\* missing, on a clock that stands still
InitStale == InitWith(FALSE) /\ ~twilioClient /\ ~twilioFromNumber

NextStale ==
    \/ nextId <= MaxSubs /\ CreateSubscription
    \/ \E c \in Cycles : CronTrigger(c)
    \/ \E c \in Cycles, feed \in Feeds(MaxStaleFeed) : FetchResolve(c, feed)
    \/ \E c \in Cycles : FetchReject(c)

SpecStale == InitStale /\ [][NextStale]_vars

\* one subscription polled over a held feed, invocations one at a time: the cron
\* schedule keeps firing, and the fetch and the send, tried again and again, succeed
NextRetry ==
    \/ nextId <= MaxOverlapSubs /\ CreateSubscription
    \/ CronTrigger(1)
    \/ FetchResolve(1, world)
    \/ FetchReject(1)
    \/ SendResolve(1)
    \/ SendResolveStoreError(1)
    \/ SendReject(1)
    \/ \E feed \in Feeds(MaxFeed) : FeedChanges(feed)

SpecRetry ==
    /\ InitReplay
    /\ [][NextRetry]_vars
    /\ WF_vars(CronTrigger(1))
    /\ SF_vars(FetchResolve(1, world))
    /\ SF_vars(SendResolve(1))

\* ---- properties ----
Cursor(row) == <<row.lastObservationId, row.lastNotifiedAt>>

\* the stored cursor of id is different after the step
CursorChanged(id) ==
    /\ id \in DOMAIN store
    /\ id \in DOMAIN store'
    /\ Cursor(store'[id]) # Cursor(store[id])

\* the step just taken wrote the cursor of its row after Twilio accepted a message for it
SentThenWrote(id) ==
    /\ ev'.state = "Committed"
    /\ ev'.id = id
    /\ ev'.messaged

\* C1 as stated: in every configuration, a cursor changes only in a step of an
\* invocation that has just sent a message to that subscription.
C1_WriteOnlyAfterSend ==
    [][\A id \in 1..MaxSubs : CursorChanged(id) => SentThenWrote(id)]_vars

\* C1 amended: with the Twilio client and the from-number both configured, a cursor
\* changes only in a step of an invocation that has just sent a message to that
\* subscription (with SMS disabled line 111 writes the cursor and nothing is sent).
C1_WriteOnlyAfterSendWhenEnabled ==
    [][SmsEnabled => \A id \in 1..MaxSubs : CursorChanged(id) => SentThenWrote(id)]_vars

C1_Witness ==
    /\ SmsEnabled
    /\ ev.state = "Committed"
    /\ ev.messaged
    /\ ev.id \in DOMAIN store
    /\ Cursor(store[ev.id]) = <<ev.primary, now>>
    /\ Cursor(ev.listed) # Cursor(store[ev.id])

\* C2 as stated: at most one execute() is in progress at any time.
C2_OneCycleAtATime ==
    Cardinality({c \in Cycles : pc[c] # "idle"}) <= 1

\* C3: within one run of execute(), no subscription is sent a second message,
\* whatever the size of the batch.
C3_OneMessagePerSubscription ==
    [][ev'.messaged => ev'.id \notin sent[ev'.c]]_vars

C3_Witness ==
    /\ ev.messaged
    /\ ev.extras >= 1
    /\ sent[ev.c] # {}

\* invocation c holds the response to the fetch of the row that the last dispatch was
\* for, listed after that dispatch, and the feed is the one that dispatch saw
Refetches(c, result) ==
    /\ pc[c] = "fetch"
    /\ lastDispatch.result = result
    /\ lastDispatch.id = Current(c).id
    /\ ev'.c = c
    /\ ev'.id = Current(c).id
    /\ ev'.cause = "none"
    /\ ev'.state \in {"Throttled", "Dispatching", "Committed", "Failed"}

\* the listed cursor is the one the last dispatch committed
ListedAfterCommit(c) ==
    /\ Current(c).lastObservationId = lastDispatch.batch[1].subId
    /\ Current(c).lastNotifiedAt = lastDispatch.at

\* the step found no new sighting, sent nothing and wrote nothing
NothingNew ==
    /\ ev'.state = "Throttled"
    /\ ev'.primary = 0
    /\ ~ev'.messaged
    /\ store' = store

\* the held response starts with the committed checklist, or every other checklist in
\* it has an obsDt that parses and is not later than the time of the commit
NotNewerThanCommit(subscription) ==
    \/ world[1].subId = subscription.lastObservationId
    \/ \A i \in 1..Len(world) :
          \/ world[i].subId = subscription.lastObservationId
          \/ /\ IsFinite(DateParse(world[i].obsDt))
             /\ DateParse(world[i].obsDt) <= DateParse(subscription.lastNotifiedAt)

\* C4 as stated: after a commit for a subscription, the next invocation that receives
\* the identical response finds no new sighting, sends nothing and leaves the cursor,
\* whatever the obsDt values in the response.
C4_ReplayFindsNothing ==
    [][\A c \in Cycles :
          Refetches(c, "Committed") /\ ListedAfterCommit(c) => NothingNew]_vars

\* C4 amended: after a commit for a subscription, the next invocation that receives the
\* identical response finds no new sighting, sends nothing and leaves the cursor,
\* provided the response starts with the committed checklist or every other checklist
\* in it has an obsDt that parses and is not later than the time of the commit.
C4_ReplayFindsNothingNotNewer ==
    [][\A c \in Cycles :
          Refetches(c, "Committed") /\ ListedAfterCommit(c)
              /\ NotNewerThanCommit(Current(c)) => NothingNew]_vars

C4_Witness ==
    /\ ev.state = "Throttled"
    /\ ev.cause = "none"
    /\ ev.primary = 0
    /\ lastDispatch.result = "Committed"
    /\ lastDispatch.id = ev.id
    /\ Cursor(ev.listed) = <<lastDispatch.batch[1].subId, lastDispatch.at>>
    /\ Len(world) >= 2
    /\ world[1].subId # ev.listed.lastObservationId
    /\ ev.id \in DOMAIN store
    /\ Cursor(store[ev.id]) = Cursor(ev.listed)

\* C5: a rejected send leaves the store as it was, and the next invocation that
\* receives the same response for that subscription reaches the send with the same batch.
C5_FailedSendRetriesSameBatch ==
    [][/\ (ev'.state = "Failed" /\ ev'.cause = "send") => store' = store
       /\ \A c \in Cycles :
             Refetches(c, "SendFailed") =>
                 /\ ev'.state = "Dispatching"
                 /\ newSightings'[c] = lastDispatch.batch
                 /\ Current(c) = lastDispatch.listed
                 /\ store' = store]_vars

C5_Witness ==
    /\ ev.state = "Dispatching"
    /\ lastDispatch.result = "SendFailed"
    /\ lastDispatch.id = ev.id
    /\ pc[ev.c] = "send"
    /\ newSightings[ev.c] = lastDispatch.batch
    /\ Len(lastDispatch.batch) >= 2
    /\ ev.listed.lastObservationId # Null

\* C6: a step of the loop body that ends its row Throttled or Failed, and the step
\* that takes it to the send before that, leave every row of the store as it was.
C6_ThrottledOrFailedWritesNothing ==
    [][ev'.state \in {"Dispatching", "Throttled", "Failed"} => store' = store]_vars

C6_Witness ==
    /\ ev.state = "Failed"
    /\ ev.cause = "store"
    /\ ev.messaged
    /\ ev.id \in DOMAIN store
    /\ store[ev.id] = ev.listed

\* C7: in every step, whichever invocations are in flight, a row that stays in the
\* store keeps a set lastNotifiedAt set, and its new value is not earlier than the old.
C7_LastNotifiedAtNeverBackward ==
    [][\A id \in DOMAIN store \cap DOMAIN store' :
          Truthy(store[id].lastNotifiedAt) =>
              /\ Truthy(store'[id].lastNotifiedAt)
              /\ IsFinite(DateParse(store'[id].lastNotifiedAt))
              /\ DateParse(store'[id].lastNotifiedAt)
                     >= DateParse(store[id].lastNotifiedAt)]_vars

C7_Witness ==
    /\ ev.state = "Committed"
    /\ ev.id \in DOMAIN store
    /\ Truthy(ev.listed.lastNotifiedAt)
    /\ store[ev.id].lastNotifiedAt > ev.listed.lastNotifiedAt
    /\ Cardinality({c \in Cycles : pc[c] # "idle"}) >= 1

\* the step is a cursor write for id that replaces a set lastObservationId by the
\* checklist of a sighting whose obsDt parses
ReplacesObservation(id) ==
    /\ ev'.state = "Committed"
    /\ ev'.id = id
    /\ id \in DOMAIN store
    /\ id \in DOMAIN store'
    /\ Truthy(store[id].lastObservationId)
    /\ store'[id].lastObservationId = ev'.primary
    /\ store'[id].lastObservationId # store[id].lastObservationId
    /\ IsFinite(DateParse(ObsDtOf(ev'.primary)))

\* C8 as stated (for sightings whose obsDt parses): a cursor write that replaces a set
\* lastObservationId writes the checklist of a sighting observed at or after the
\* lastNotifiedAt stored at the moment of the write.
C8_ReplacedByLaterSighting ==
    [][\A id \in 1..MaxSubs :
          ReplacesObservation(id) =>
              DateParse(ObsDtOf(ev'.primary)) >= DateParse(store[id].lastNotifiedAt)]_vars

\* C9: in every row of the store, lastObservationId is unset exactly when
\* lastNotifiedAt is unset.
C9_CursorFieldsTogether ==
    \A id \in DOMAIN store :
        Truthy(store[id].lastObservationId) <=> Truthy(store[id].lastNotifiedAt)

C9_Witness ==
    /\ ev.state = "Committed"
    /\ ev.id \in DOMAIN store
    /\ ~Truthy(ev.listed.lastObservationId)
    /\ ~Truthy(ev.listed.lastNotifiedAt)
    /\ Truthy(store[ev.id].lastObservationId)
    /\ Truthy(store[ev.id].lastNotifiedAt)

\* the ids handed out so far whose rows have been deleted
Deleted == {id \in 1..(nextId - 1) : id \notin DOMAIN store}

\* C10: a cursor write addressed to a deleted id returns without an error and changes
\* nothing, and in no step does a deleted id come back into the table.
C10_UpdateOfDeletedIsNoOp ==
    [][/\ \A id \in Deleted : id \notin DOMAIN store'
       /\ \A c \in Cycles :
             (pc[c] # "idle" /\ Current(c).id \in Deleted /\ ev'.c = c
                  /\ ev'.state = "Committed") => store' = store]_vars

C10_Witness ==
    /\ ev.state = "Committed"
    /\ ev.messaged
    /\ ev.id \in Deleted
    /\ listSubscriptions = <<>>

\* C11: when the processing of a row throws (fetch, send or cursor write) and the
\* listed rows are not exhausted, execute() goes on to the next listed row and issues
\* its fetch; a later row of the same run can then be committed.
C11_FailureDoesNotStopTheRun ==
    [][\A c \in Cycles :
          (pc[c] # "idle" /\ ev'.c = c /\ ev'.state = "Failed"
               /\ idx[c] < Len(subscriptions[c])) =>
              /\ pc'[c] = "fetch"
              /\ idx'[c] = idx[c] + 1
              /\ subscriptions'[c] = subscriptions[c]
              /\ ev'.cause \in failedEarlier'[c]]_vars

C11_Witness ==
    /\ ev.state = "Committed"
    /\ ev.messaged
    /\ failedEarlier[ev.c] # {}
    /\ ev.id \in DOMAIN store
    /\ Cursor(store[ev.id]) = <<ev.primary, now>>

\* invocation c receives an array from the feed and runs the loop body on it
ResolvesWithArray(c) ==
    /\ pc[c] = "fetch"
    /\ ev'.c = c
    /\ ev'.id = Current(c).id
    /\ ev'.cause \in {"none", "store"}
    /\ ev'.state \in {"Throttled", "Dispatching", "Committed", "Failed"}

\* nothing of the held response passes the filter, or the gate refuses what passes
NothingPassesOrGateRefuses(subscription) ==
    \/ FilterNew(subscription, world) = <<>>
    \/ TooSoon(subscription, FilterNew(subscription, world))

\* the first entry of the held response is the checklist last notified
LatestIsLastNotified(subscription) ==
    /\ Len(world) > 0
    /\ Truthy(subscription.lastObservationId)
    /\ world[1].subId = subscription.lastObservationId

\* C12 as stated: after a fetch that returned an array, the row ends Throttled exactly
\* when nothing passes the filter or the gate refuses, also when the first entry of
\* the response is the checklist last notified.
C12_ThrottledOnlyByFilterOrGate ==
    [][\A c \in Cycles :
          ResolvesWithArray(c) =>
              (ev'.state = "Throttled" <=> NothingPassesOrGateRefuses(Current(c)))]_vars

\* C12 amended: after a fetch that returned an array, the row ends Throttled exactly
\* when the first entry of the response is the checklist last notified, or nothing
\* passes the filter, or the gate refuses; in every other case it goes on to line 90.
C12_ThrottledByLatestFilterOrGate ==
    [][\A c \in Cycles :
          ResolvesWithArray(c) =>
              (ev'.state = "Throttled" <=>
                  \/ LatestIsLastNotified(Current(c))
                  \/ NothingPassesOrGateRefuses(Current(c)))]_vars

C12_Witness ==
    /\ ev.state = "Throttled"
    /\ ev.cause = "none"
    /\ LatestIsLastNotified(ev.listed)
    /\ ~NothingPassesOrGateRefuses(ev.listed)
    /\ ev.id \in DOMAIN store
    /\ store[ev.id] = ev.listed

\* the earliest obsDt, in milliseconds, among the entries of a batch whose dates parse
EarliestObserved(batch) ==
    CHOOSE t \in {DateParse(batch[i].obsDt) : i \in 1..Len(batch)} :
        \A i \in 1..Len(batch) : t <= DateParse(batch[i].obsDt)

\* the gate of lines 79-88 is evaluated for the held response, on dates that parse
GateEvaluated(c) ==
    /\ ResolvesWithArray(c)
    /\ Truthy(Current(c).lastNotifiedAt)
    /\ ~LatestIsLastNotified(Current(c))
    /\ FilterNew(Current(c), world) # <<>>
    /\ \A i \in 1..Len(world) : IsFinite(DateParse(world[i].obsDt))

\* C13 as stated: with lastNotifiedAt set, the batch goes on to line 90 exactly when
\* the earliest obsDt in the batch is at least minimumNotificationMinutes after
\* lastNotifiedAt, in whatever order the feed lists the entries.
C13_GateUsesEarliestSighting ==
    [][\A c \in Cycles :
          GateEvaluated(c) =>
              (ev'.state # "Throttled" <=>
                  EarliestObserved(FilterNew(Current(c), world))
                        - DateParse(Current(c).lastNotifiedAt)
                      >= minimumNotificationMinutes * MsPerMinute)]_vars

\* milliseconds from the listed lastNotifiedAt to the obsDt of the first new sighting
GapOf(event) ==
    DateParse(ObsDtOf(event.primary)) - DateParse(event.listed.lastNotifiedAt)

\* the loop body found exactly one new sighting, with lastNotifiedAt set and a date
\* that parses
OneNewSighting(event) ==
    /\ Truthy(event.listed.lastNotifiedAt)
    /\ event.primary # 0
    /\ event.extras = 0
    /\ IsFinite(DateParse(ObsDtOf(event.primary)))

ListedUnset(event) ==
    /\ ~Truthy(event.listed.lastObservationId)
    /\ ~Truthy(event.listed.lastNotifiedAt)

\* the step just taken ended the processing of a row for which the feed had returned
\* at least one observation
EndedWithObservations ==
    /\ ev.state \in {"Throttled", "Committed", "Failed"}
    /\ ev.cause \in {"none", "send", "store"}
    /\ Len(world) >= 1

\* C15 as stated: a row listed with an unset cursor, for which the feed returns at least
\* one observation, always ends Committed, with an alert sent and the cursor set.
C15_FirstCycleCommits ==
    (EndedWithObservations /\ ListedUnset(ev)) =>
        /\ ev.state = "Committed"
        /\ ev.messaged
        /\ ev.id \in DOMAIN store
        /\ Truthy(store[ev.id].lastObservationId)
        /\ Truthy(store[ev.id].lastNotifiedAt)

\* C15 amended: a row listed with an unset cursor, for which the feed returns at least
\* one observation, is never skipped or throttled: its batch is the whole response and
\* it reaches line 90.  It ends Committed with the cursor set to the first observation,
\* after an alert when SMS is enabled, unless the send or the cursor write throws or the
\* row was deleted in the meantime.
C15_FirstCycleReachesDispatch ==
    (EndedWithObservations /\ ListedUnset(ev)) =>
        /\ ev.state # "Throttled"
        /\ ev.primary = world[1].subId
        /\ ev.extras = Len(world) - 1
        /\ ev.state = "Failed" => ev.cause \in {"send", "store"}
        /\ ev.state = "Committed" =>
              /\ ev.messaged <=> SmsEnabled
              /\ ev.id \in DOMAIN store => Cursor(store[ev.id]) = <<world[1].subId, now>>

C15_Witness ==
    /\ EndedWithObservations
    /\ ListedUnset(ev)
    /\ ev.state = "Committed"
    /\ ev.messaged
    /\ ev.extras >= 1
    /\ ev.id \in DOMAIN store
    /\ Cursor(store[ev.id]) = <<world[1].subId, now>>

\* C16: when the listed lastNotifiedAt is unset and something of the response passes
\* the filter, the gate does not refuse it and the row goes on to line 90 with that
\* batch, whatever minimumNotificationMinutes is.
C16_UnsetCursorNeverThrottled ==
    [][\A c \in Cycles :
          (ResolvesWithArray(c) /\ ~Truthy(Current(c).lastNotifiedAt)
               /\ FilterNew(Current(c), world) # <<>>) =>
              /\ ev'.state # "Throttled"
              /\ ev'.primary = FilterNew(Current(c), world)[1].subId
              /\ SmsEnabled =>
                    /\ pc'[c] = "send"
                    /\ newSightings'[c] = FilterNew(Current(c), world)]_vars

C16_Witness ==
    /\ ev.state = "Dispatching"
    /\ ~Truthy(ev.listed.lastNotifiedAt)
    /\ minimumNotificationMinutes = 60
    /\ newSightings[ev.c] = world
    /\ Len(world) >= 2
    /\ \E i \in 1..Len(world) : world[i].obsDt = 0

\* C17: when the message was accepted and the cursor write then throws, the store is
\* left as it was, and the next invocation that receives the same response for that
\* row calls messages.create again for the same primary sighting and the same batch.
C17_StoreFailureDuplicatesAlert ==
    [][/\ (ev'.state = "Failed" /\ ev'.cause = "store") => store' = store
       /\ \A c \in Cycles :
             (Refetches(c, "StoreFailed") /\ SmsEnabled) =>
                 /\ ev'.state = "Dispatching"
                 /\ pc'[c] = "send"
                 /\ ev'.primary = lastDispatch.batch[1].subId
                 /\ newSightings'[c] = lastDispatch.batch
       /\ \A c \in Cycles :
             (pc[c] = "send" /\ lastDispatch.result = "StoreFailed"
                  /\ lastDispatch.id = Current(c).id /\ ev'.c = c /\ ev'.messaged) =>
                 ev'.primary = lastDispatch.batch[1].subId]_vars

C17_Witness ==
    /\ SmsEnabled
    /\ ev.state = "Dispatching"
    /\ pc[ev.c] = "send"
    /\ lastDispatch.result = "StoreFailed"
    /\ lastDispatch.id = ev.id
    /\ newSightings[ev.c] = lastDispatch.batch
    /\ ev.primary = lastDispatch.batch[1].subId
    /\ ev.listed = lastDispatch.listed

\* C18: a step that commits a row still in the table stores the checklist of the
\* primary sighting, which is the first of the batch and the one the message (when
\* one was sent) summarises with extras = batch size - 1, and stores as lastNotifiedAt
\* the time of the write or the obsDt of the primary sighting.
C18_CommittedCursor ==
    [][\A c \in Cycles :
          (pc[c] # "idle" /\ ev'.c = c /\ ev'.state = "Committed"
               /\ Current(c).id \in DOMAIN store) =>
              /\ store'[Current(c).id].lastObservationId = ev'.primary
              /\ \/ store'[Current(c).id].lastNotifiedAt = now
                 \/ store'[Current(c).id].lastNotifiedAt = ObsDtOf(ev'.primary)
              /\ ev'.messaged =>
                    /\ pc[c] = "send"
                    /\ ev'.primary = newSightings[c][1].subId
                    /\ Message(Current(c), newSightings[c]).primary = ev'.primary
                    /\ Message(Current(c), newSightings[c]).extras
                           = Len(newSightings[c]) - 1]_vars

C18_Witness ==
    /\ ev.state = "Committed"
    /\ ev.messaged
    /\ ev.extras = 1
    /\ ev.id \in DOMAIN store
    /\ store[ev.id].lastObservationId = ev.primary
    /\ store[ev.id].lastNotifiedAt = now
    /\ ObsDtOf(ev.primary) # now

\* the scenario: minimumNotificationMinutes is 60 and the held response has one observation
OneObservationScenario ==
    /\ minimumNotificationMinutes = 60
    /\ Len(world) = 1
    /\ IsFinite(DateParse(world[1].obsDt))

\* invocation c commits a row it listed with an unset cursor and that is still in the table
FirstCommit(c) ==
    /\ pc[c] # "idle"
    /\ ev'.c = c
    /\ ev'.state = "Committed"
    /\ ListedUnset(ev')
    /\ Current(c).id \in DOMAIN store

\* C19 as stated: in the scenario, the first invocation commits the cursor {the
\* observation's checklist, the observation's obsDt}, and the next invocation with the
\* same response finds nothing new, sends nothing and leaves the cursor.
C19_ScenarioCursorIsObservedAt ==
    [][OneObservationScenario =>
          \A c \in Cycles :
             /\ FirstCommit(c) =>
                   Cursor(store'[Current(c).id]) = <<world[1].subId, world[1].obsDt>>
             /\ (Refetches(c, "Committed") /\ ListedAfterCommit(c)) => NothingNew]_vars

\* C19 amended: in the scenario, the first invocation commits the cursor {the
\* observation's checklist, the time of the write}, and the next invocation with the
\* same response finds nothing new, sends nothing and leaves the cursor.
C19_ScenarioCursorIsCommitTime ==
    [][OneObservationScenario =>
          \A c \in Cycles :
             /\ FirstCommit(c) =>
                   Cursor(store'[Current(c).id]) = <<world[1].subId, now>>
             /\ (Refetches(c, "Committed") /\ ListedAfterCommit(c)) => NothingNew]_vars

C19_Witness ==
    /\ OneObservationScenario
    /\ ev.state = "Throttled"
    /\ ev.cause = "none"
    /\ ev.primary = 0
    /\ lastDispatch.result = "Committed"
    /\ lastDispatch.id = ev.id
    /\ ListedUnset(lastDispatch)
    /\ ev.id \in DOMAIN store
    /\ Cursor(store[ev.id]) = <<world[1].subId, lastDispatch.at>>
    /\ Cursor(ev.listed) = Cursor(store[ev.id])
    /\ lastDispatch.at # world[1].obsDt

\* C20 as stated: a 404 Not Found answer from the feed ends the row as a no-op, with
\* nothing logged as a failure, as an empty response does.
C20_NotFoundIsEmpty ==
    ev.cause = "notFound" =>
        /\ ev.state = "Throttled"
        /\ ev.primary = 0
        /\ "notFound" \notin failedEarlier[ev.c]

\* the step just taken ended with an exception somewhere in execute()
Threw(event) == event.state \in {"Failed", "Rejected"}

\* C21: whatever throws inside execute() (the listing, the fetch, the send, the cursor
\* write), the error is caught and logged: no step leaves a rejection unhandled, every
\* invocation slot stays usable, and a slot that is idle after the failure can be
\* triggered again.
C21_NoErrorEscapes ==
    [][/\ ev'.state # "Unhandled"
       /\ \A c \in Cycles : pc'[c] \in {"idle", "fetch", "send"}
       /\ Threw(ev') => /\ store' = store
                        /\ ev'.state = "Rejected" => pc'[ev'.c] = "idle"
                        /\ ev'.state = "Failed" =>
                              ev'.cause \in {"fetch", "notFound", "send", "store"}]_vars

C21_Witness ==
    /\ ev.state = "Rejected"
    /\ store # <<>>
    /\ \E c \in Cycles : pc[c] # "idle"
    /\ ENABLED CronTrigger(ev.c)

\* the step is a restart: the table is as it was and the startup run has listed it
RestartListsPersisted ==
    /\ store' = store
    /\ subscriptions'[1] = listSubscriptions
    /\ \A i \in 1..Len(subscriptions'[1]) :
          subscriptions'[1][i] = store[subscriptions'[1][i].id]
    /\ pc'[1] = IF DOMAIN store = {} THEN "idle" ELSE "fetch"
    /\ \A c \in Cycles \ {1} : pc'[c] = "idle"

\* the startup run of a restart that followed a commit receives the response the
\* commit saw, for the row of that commit
StartupRefetches ==
    /\ ev.state = "Restarted"
    /\ Refetches(1, "Committed")
    /\ ListedAfterCommit(1)

\* the step sent nothing and wrote nothing
NoAlertNoWrite ==
    /\ ev'.state = "Throttled"
    /\ ~ev'.messaged
    /\ store' = store

\* C22 as stated: after a restart that follows a commit, the startup run works on the
\* persisted cursors, and with the response unchanged it sends nothing and leaves the
\* cursor as persisted.
C22_RestartKeepsProgress ==
    [][/\ ev'.state = "Restarted" => RestartListsPersisted
       /\ StartupRefetches => NoAlertNoWrite]_vars

\* C22 amended: after a restart that follows a commit, the startup run works on the
\* persisted cursors, and with the response unchanged it sends nothing and leaves the
\* cursor as persisted, provided the response starts with the committed checklist or
\* every other checklist in it has an obsDt that parses and is not later than the
\* time of the commit; the committed checklist itself is never the subject of a
\* second alert.
C22_RestartKeepsProgressNotNewer ==
    [][/\ ev'.state = "Restarted" => RestartListsPersisted
       /\ (StartupRefetches /\ NotNewerThanCommit(Current(1))) => NoAlertNoWrite
       /\ StartupRefetches => ev'.primary # Current(1).lastObservationId]_vars

C22_Witness ==
    /\ ev.state = "Restarted"
    /\ pc[1] = "fetch"
    /\ lastDispatch.result = "Committed"
    /\ lastDispatch.id = Current(1).id
    /\ Cursor(Current(1)) = <<lastDispatch.batch[1].subId, lastDispatch.at>>
    /\ Current(1) = store[Current(1).id]
    /\ NotNewerThanCommit(Current(1))
    /\ Len(world) >= 2
    /\ world[1].subId # Current(1).lastObservationId

\* the step makes invocation c begin the processing of a row (its fetch is issued)
BeginsRow(c) ==
    /\ pc'[c] = "fetch"
    /\ pc[c] = "idle" \/ idx'[c] # idx[c]

\* C23 as stated: when an invocation begins the processing of a row that is in the
\* table, the cursor it holds for the row is the one stored at that moment, the result
\* of the last cursor write committed for that id.
C23_RowCursorIsCurrent ==
    [][\A c \in Cycles :
          (BeginsRow(c) /\ subscriptions'[c][idx'[c]].id \in DOMAIN store') =>
              Cursor(subscriptions'[c][idx'[c]])
                  = Cursor(store'[subscriptions'[c][idx'[c]].id])]_vars

\* the held response contains a sighting that passes the filter and the gate for the
\* stored row id
PassesFor(id) ==
    /\ id \in DOMAIN store
    /\ ReachesDispatch(store[id], world)

\* a cursor write for id has just been committed
CommittedFor(id) ==
    /\ ev.state = "Committed"
    /\ ev.id = id

StrictlyNewer(subscription, feed) ==
    SelectSeq(feed, LAMBDA o :
        /\ o.subId # subscription.lastObservationId
        /\ \/ ~Truthy(subscription.lastNotifiedAt)
           \/ /\ IsFinite(DateParse(o.obsDt))
              /\ DateParse(o.obsDt) > DateParse(subscription.lastNotifiedAt))

\* the same, keeping also the observations whose obsDt does not parse
StrictlyNewerOrUndated(subscription, feed) ==
    SelectSeq(feed, LAMBDA o :
        /\ o.subId # subscription.lastObservationId
        /\ \/ ~Truthy(subscription.lastNotifiedAt)
           \/ ~IsFinite(DateParse(o.obsDt))
           \/ DateParse(o.obsDt) > DateParse(subscription.lastNotifiedAt))

\* invocation c runs the filter of lines 62-73 on the held response
Filters(c) ==
    /\ ResolvesWithArray(c)
    /\ Len(world) > 0
    /\ ~LatestIsLastNotified(Current(c))

\* the step worked on this batch
WorkedOn(c, batch) ==
    /\ ev'.primary = IF batch = <<>> THEN 0 ELSE batch[1].subId
    /\ ev'.extras = IF batch = <<>> THEN 0 ELSE Len(batch) - 1
    /\ ev'.state = "Dispatching" => newSightings'[c] = batch
    /\ batch = <<>> => ev'.state = "Throttled"

\* C25 as stated: the filter returns exactly the observations of the response, in
\* order, whose checklist differs from lastObservationId and, when lastNotifiedAt is
\* set, whose obsDt is strictly later than it; with an unset cursor it returns all.
C25_FilterKeepsStrictlyNewer ==
    [][\A c \in Cycles :
          Filters(c) => WorkedOn(c, StrictlyNewer(Current(c), world))]_vars

\* C25 amended: the filter returns exactly the observations of the response, in order,
\* whose checklist differs from lastObservationId and, when lastNotifiedAt is set,
\* whose obsDt is strictly later than it or does not parse; with an unset cursor it
\* returns all.
C25_FilterKeepsStrictlyNewerOrUndated ==
    [][\A c \in Cycles :
          Filters(c) => WorkedOn(c, StrictlyNewerOrUndated(Current(c), world))]_vars

C25_Witness ==
    /\ ev.state \in {"Throttled", "Dispatching"}
    /\ ev.cause = "none"
    /\ Truthy(ev.listed.lastNotifiedAt)
    /\ Len(world) = 3
    /\ ~LatestIsLastNotified(ev.listed)
    /\ \E i \in 2..3 : world[i].subId = ev.listed.lastObservationId
    /\ StrictlyNewerOrUndated(ev.listed, world) # <<>>
    /\ StrictlyNewer(ev.listed, world) = <<>>
    /\ ev.primary = StrictlyNewerOrUndated(ev.listed, world)[1].subId
    /\ ev.extras = 0

\* the notifier is not running: no callback is registered and no invocation is anywhere
\* between its first and its last statement
NothingScheduled ==
    /\ ~scheduled
    /\ \A c \in Cycles : pc[c] = "idle" /\ ~ENABLED CronTrigger(c)

\* the step fetched nothing, sent nothing and wrote no cursor
NoNotifierWork ==
    /\ pc' = pc
    /\ store' = store
    /\ sent' = sent
    /\ lastDispatch' = lastDispatch
    /\ ev'.state \in {"none", "Refused"}

\* C26: when the process is started without the feed credential, startNotifier throws
\* before anything is scheduled: no cron callback is registered, no startup run begins,
\* and from then on no fetch, no send and no cursor write happens.
C26_NoKeyNothingRuns ==
    /\ [](~ebirdApiKey => NothingScheduled)
    /\ [][~ebirdApiKey' => NoNotifierWork \/ (ebirdApiKey /\ store' = store /\ ~ev'.messaged)]_vars

\* the process was started without the key over a store that holds a row with a
\* cursor written by the previous process
C26_Witness ==
    /\ ~ebirdApiKey
    /\ ev.state = "Refused"
    /\ DOMAIN store # {}
    /\ \E id \in DOMAIN store : store[id].lastObservationId # Null

\* the startup run has begun: invocation 1 has listed the table and, when there are rows,
\* has issued the fetch for the first of them; no other invocation exists
StartupRunBegun ==
    /\ subscriptions[1] = listSubscriptions
    /\ pc[1] = IF DOMAIN store = {} THEN "idle" ELSE "fetch"
    /\ DOMAIN store # {} => idx[1] = 1
    /\ \A c \in Cycles \ {1} : pc[c] = "idle"

\* C27: when the notifier starts successfully, one invocation is begun in the start
\* itself: it is at work as soon as startNotifier returns, and its fetch can resolve
\* without any periodic trigger having fired, while the schedule stays registered.
C27_StartupRunsAtOnce ==
    [](ev.state = "Restarted" =>
          /\ ebirdApiKey /\ scheduled
          /\ StartupRunBegun
          /\ DOMAIN store # {} => ENABLED FetchResolve(1, <<>>)
          /\ \E c \in Cycles : ENABLED CronTrigger(c))

\* a start over a table with rows: the startup run awaits the feed for the newest row
C27_Witness ==
    /\ ev.state = "Restarted"
    /\ scheduled
    /\ Cardinality(DOMAIN store) = MaxOverlapSubs
    /\ pc[1] = "fetch"
    /\ Current(1) = store[nextId - 1]

\* the columns of a row that come from the create request
Payload(row) == <<row.id, row.radiusMiles>>

\* the step is a create: one row with a fresh id and the request's payload is added
CreateStep ==
    /\ DOMAIN store' = DOMAIN store \cup {nextId}
    /\ nextId \notin DOMAIN store
    /\ store'[nextId] = NewRow(nextId)
    /\ \A id \in DOMAIN store : store'[id] = store[id]

\* the step is a delete: one row is removed and every other row stays as it is
DeleteStep ==
    \E gone \in DOMAIN store :
        /\ DOMAIN store' = DOMAIN store \ {gone}
        /\ \A id \in DOMAIN store' : store'[id] = store[id]

\* the step adds or removes a row or changes a column other than the cursor
TableChanged ==
    \/ DOMAIN store' # DOMAIN store
    \/ \E id \in DOMAIN store : Payload(store'[id]) # Payload(store[id])

\* C28: the set of subscription ids and every column other than lastObservationId and
\* lastNotifiedAt change only by a create or a delete request; no step of an invocation
\* (listing, fetch, send, cursor write) adds a row, removes a row or changes such a
\* column.
C28_OnlyManagementChangesRows ==
    [][TableChanged => /\ CreateStep \/ DeleteStep
                       /\ ev' = NoEvent
                       /\ locals' = locals]_vars

\* an invocation has written the cursor of a row: the row is there with the payload
\* it was created with
C28_Witness ==
    /\ ev.state = "Committed"
    /\ ev.id \in DOMAIN store
    /\ store[ev.id].lastObservationId # Null
    /\ Payload(store[ev.id]) = <<ev.id, RadiusMilesOf(ev.id)>>
    /\ Cardinality(DOMAIN store) = MaxSubs

\* ---- the feed clients: index.js 90-125 (backend), part_002 lines 280-322 (UI) ----
Undefined == 0 - 4  \* an observation without the distance property
Distances == {Undefined, 1, 2}

RECURSIVE SeqsOf(_, _)
SeqsOf(S, n) ==
    IF n = 0 THEN {<<>>}
    ELSE SeqsOf(S, n - 1) \cup
         {Append(q, x) : q \in {r \in SeqsOf(S, n - 1) : Len(r) = n - 1}, x \in S}

\* the bodies eBird can return: every observation with an obsDt and, possibly, a
\* distance; subId is the position in the body
Responses ==
    {[i \in 1..Len(q) |-> [subId |-> i, obsDt |-> q[i][1], distance |-> q[i][2]]] :
        q \in SeqsOf(Ticks \X Distances, MaxResponse)}

\* new Date(obsDt).getTime()
GetTime(obsDt) == obsDt * TickMinutes * MsPerMinute

\* the comparator of part_002 lines 315-321
compare(a, b) ==
    IF a.distance = Undefined \/ b.distance = Undefined
      THEN GetTime(b.obsDt) - GetTime(a.obsDt)
      ELSE a.distance - b.distance

\* ECMAScript: the comparator is a consistent comparator for the elements of body
ConsistentComparator(body) ==
    \A i, j, k \in 1..Len(body) :
        /\ (compare(body[i], body[j]) = 0 /\ compare(body[j], body[k]) = 0)
              => compare(body[i], body[k]) = 0
        /\ (compare(body[i], body[j]) < 0 /\ compare(body[j], body[k]) < 0)
              => compare(body[i], body[k]) < 0
        /\ (compare(body[i], body[j]) > 0 /\ compare(body[j], body[k]) > 0)
              => compare(body[i], body[k]) > 0
        /\ (compare(body[i], body[j]) = 0 /\ compare(body[j], body[k]) < 0)
              => compare(body[i], body[k]) < 0
        /\ (compare(body[i], body[j]) < 0 /\ compare(body[j], body[k]) = 0)
              => compare(body[i], body[k]) < 0

\* the rearrangements of body
Rearrangements(body) ==
    {[i \in 1..Len(body) |-> body[p[i]]] :
        p \in {f \in [1..Len(body) -> 1..Len(body)] :
                 \A i, j \in 1..Len(body) : i # j => f[i] # f[j]}}

\* Array.prototype.sort with the comparator: a stable sort when the comparator is
\* consistent, an implementation-defined order of the elements when it is not
SortResults(body) ==
    {r \in Rearrangements(body) :
        ConsistentComparator(body) =>
            \A i, j \in 1..Len(r) :
                i < j => \/ compare(r[i], r[j]) < 0
                         \/ compare(r[i], r[j]) = 0 /\ r[i].subId < r[j].subId}

\* index.js 90-125 on a successful response: return response.json()
BackendFetch ==
    /\ client = "none"
    /\ observations' = response
    /\ client' = "backend"
    /\ UNCHANGED <<server, app, response, speciesCatalog, speciesCatalogPromise, loads, callers>>

\* part_002 lines 280-322 on a successful response: return observations.sort(...)
UiFetch ==
    /\ client = "none"
    /\ \E r \in SortResults(response) : observations' = r
    /\ client' = "ui"
    /\ UNCHANGED <<server, app, response, speciesCatalog, speciesCatalogPromise, loads, callers>>

\* the caller is done with the observations
FetchReturn ==
    /\ client # "none"
    /\ client' = "none"
    /\ observations' = <<>>
    /\ UNCHANGED <<server, app, response, speciesCatalog, speciesCatalogPromise, loads, callers>>

InitFeed ==
    /\ ServerInit(FALSE) /\ ~twilioClient /\ ~twilioFromNumber
    /\ response \in Responses
    /\ observations = <<>>
    /\ client = "none"
    /\ CatalogIdle
    /\ reqBody = NoBody
    /\ AppIdle

NextFeed == BackendFetch \/ UiFetch \/ FetchReturn

SpecFeed == InitFeed /\ [][NextFeed]_vars

\* the sequence is in the order of the claim: of two neighbours that both carry a
\* distance the nearer comes first, of any other two neighbours the later observed
InClaimedOrder(seq) ==
    \A i \in 1..(Len(seq) - 1) :
        IF seq[i].distance # Undefined /\ seq[i + 1].distance # Undefined
          THEN seq[i].distance <= seq[i + 1].distance
          ELSE seq[i].obsDt >= seq[i + 1].obsDt

\* C29 as stated: the observations a feed client returns are ordered by ascending
\* distance when distance is present and by descending observed-at time otherwise,
\* for the backend client and for the UI client, for every body of the feed.
C29_FetchReturnsOrdered ==
    client # "none" => InClaimedOrder(observations)

\* ---- the species catalog: part_002 lines 54-55 and 324-385 ----
\* the taxonomy requests that have not been answered
InFlight == {n \in 1..Len(loads) : loads[n] = "pending"}

\* what a settled load hands to the callers that await its promise
Settled(k) ==
    [pc |-> "done", load |-> callers[k].load,
     got |-> IF loads[callers[k].load] = "fulfilled" THEN "catalog" ELSE "error",
     from |-> callers[k].load]

\* mutant: lines 333-335 are missing, a caller that finds no catalog starts a load
loadSpeciesCatalogNoSharing(k) ==
    /\ callers[k].pc = "out"
    /\ IF speciesCatalog # NoCatalog
         THEN /\ callers' = [callers EXCEPT ![k] = [pc |-> "done", load |-> 0,
                                got |-> "catalog", from |-> speciesCatalog.load]]
              /\ UNCHANGED <<speciesCatalogPromise, loads>>
         ELSE /\ Len(loads) < MaxLoads
              /\ loads' = Append(loads, "pending")
              /\ speciesCatalogPromise' = Len(loads) + 1
              /\ callers' = [callers EXCEPT ![k] = [pc |-> "creator",
                                load |-> Len(loads) + 1, got |-> "none", from |-> 0]]
    /\ UNCHANGED <<server, app, response, observations, client, speciesCatalog>>

\* loadSpeciesCatalog with an API key, lines 324-337 and 379-381: return the catalog
\* when there is one, else the promise when there is one, else start the load (the
\* request is issued at once) and await it
loadSpeciesCatalog(k) ==
    /\ callers[k].pc = "out"
    /\ IF speciesCatalog # NoCatalog
         THEN /\ callers' = [callers EXCEPT ![k] = [pc |-> "done", load |-> 0,
                                got |-> "catalog", from |-> speciesCatalog.load]]
              /\ UNCHANGED <<speciesCatalogPromise, loads>>
         ELSE IF speciesCatalogPromise # Null
           THEN /\ callers' = [callers EXCEPT ![k] = [pc |-> "shared",
                                  load |-> speciesCatalogPromise, got |-> "none",
                                  from |-> 0]]
                /\ UNCHANGED <<speciesCatalogPromise, loads>>
           ELSE /\ Len(loads) < MaxLoads
                /\ loads' = Append(loads, "pending")
                /\ speciesCatalogPromise' = Len(loads) + 1
                /\ callers' = [callers EXCEPT ![k] = [pc |-> "creator",
                                  load |-> Len(loads) + 1, got |-> "none", from |-> 0]]
    /\ UNCHANGED <<server, app, response, observations, client, speciesCatalog>>

\* lines 350-377: the taxonomy arrives as an array; speciesCatalog takes its species
\* and issf entries (length of them), and the load throws when there are none
TaxonomyArrives(n, length) ==
    /\ n \in InFlight
    /\ speciesCatalog' = [load |-> n, length |-> length]
    /\ loads' = [loads EXCEPT ![n] = IF length = 0 THEN "rejected" ELSE "fulfilled"]
    /\ UNCHANGED <<server, app, response, observations, client, speciesCatalogPromise, callers>>

\* lines 340-356: the request fails, the response is not ok or the body is no array
TaxonomyFails(n) ==
    /\ n \in InFlight
    /\ loads' = [loads EXCEPT ![n] = "rejected"]
    /\ UNCHANGED <<server, app, response, observations, client, speciesCatalog,
                   speciesCatalogPromise, callers>>

\* lines 379-384: the caller that started the load resumes, and its finally block
\* sets speciesCatalogPromise to null
CreatorResumes(k) ==
    /\ callers[k].pc = "creator"
    /\ callers[k].load \notin InFlight
    /\ speciesCatalogPromise' = Null
    /\ callers' = [callers EXCEPT ![k] = Settled(k)]
    /\ UNCHANGED <<server, app, response, observations, client, speciesCatalog, loads>>

\* line 334: a caller that was handed the promise of a load resumes
SharerResumes(k) ==
    /\ callers[k].pc = "shared"
    /\ callers[k].load \notin InFlight
    /\ callers' = [callers EXCEPT ![k] = Settled(k)]
    /\ UNCHANGED <<server, app, response, observations, client, speciesCatalog,
                   speciesCatalogPromise, loads>>

\* searchSpecies returns (or throws) and can be called again
CallerLeaves(k) ==
    /\ callers[k].pc = "done"
    /\ callers' = [callers EXCEPT ![k] = Outside]
    /\ UNCHANGED <<server, app, response, observations, client, speciesCatalog,
                   speciesCatalogPromise, loads>>

InitCatalog == InitWith(FALSE) /\ ~twilioClient /\ ~twilioFromNumber

NextCatalog ==
    \/ \E k \in Callers : loadSpeciesCatalog(k)
    \/ \E n \in 1..MaxLoads, length \in {0, 1} : TaxonomyArrives(n, length)
    \/ \E n \in 1..MaxLoads : TaxonomyFails(n)
    \/ \E k \in Callers : CreatorResumes(k)
    \/ \E k \in Callers : SharerResumes(k)
    \/ \E k \in Callers : CallerLeaves(k)

SpecCatalog == InitCatalog /\ [][NextCatalog]_vars

\* a caller that awaited a load holds the outcome of that load
HoldsOutcomeOfItsLoad(k) ==
    (callers[k].pc = "done" /\ callers[k].load # 0) =>
        /\ callers[k].from = callers[k].load
        /\ callers[k].got = "catalog" <=> loads[callers[k].load] = "fulfilled"
        /\ callers[k].got = "catalog" => speciesCatalog.load = callers[k].load

\* caller k enters loadSpeciesCatalog in this step while a request is in flight
ArrivesDuringLoad(k) ==
    /\ callers[k].pc = "out"
    /\ callers'[k].pc # "out"
    /\ InFlight # {}

\* C30: the catalog load is single-flight: at most one taxonomy request is in flight
\* at any time; a caller that arrives while a request is in flight issues none and
\* receives the outcome of that request; and once a load has succeeded no later call
\* issues a request.
C30_SingleFlight ==
    /\ [](Cardinality(InFlight) <= 1 /\ \A k \in Callers : HoldsOutcomeOfItsLoad(k))
    /\ [][/\ \A k \in Callers : ArrivesDuringLoad(k) =>
                /\ loads' = loads
                /\ callers'[k].pc = "shared"
                /\ callers'[k].load \in InFlight
          /\ (\E n \in 1..Len(loads) : loads[n] = "fulfilled") => loads' = loads]_vars

\* two callers overlapped on the first load: one has received its catalog, the other
\* holds the promise of the same load and is about to resume
C30_Witness ==
    /\ loads = <<"fulfilled">>
    /\ \E k \in Callers : callers[k] = [pc |-> "done", load |-> 1, got |-> "catalog", from |-> 1]
    /\ \A k \in Callers : callers[k].load = 1 /\ callers[k].pc \in {"done", "shared"}
    /\ \E k \in Callers : callers[k].pc = "shared"

\* ---- POST /api/subscriptions: index.js 22-57, db.js 29-66 ----
\* zod's .min(m) and .max(m) on a number, and .int() and .positive()
AtLeast(x, m) == x.n >= m
AtMost(x, m) == x.n < m \/ (x.n = m /\ ~x.half)
IsInt(x) == ~x.half
Positive(x) == x.n > 0 \/ (x.n = 0 /\ x.half)

\* /^\+?[0-9\s\-().]+$/ on a phone of the given shape: digits only; a plus and then
\* digits; digits with blanks, dashes, dots and parentheses; a plus between digits;
\* letters
PhoneRegex(phone) == phone.shape \in {"digits", "plusFirst", "punctuated"}

\* the request bodies: every field near the limits of its rule (speciesCode, given
\* by its length, stands for the three text fields with .min(2))
Bodies ==
    {[phone |-> ph, speciesCode |-> sc, latitude |-> lat, longitude |-> lng,
      radiusMiles |-> r, lookBackDays |-> lb[1], hasLookBackDays |-> lb[2],
      arrived |-> TRUE] :
        ph \in {[length |-> 4, shape |-> "digits"], [length |-> 5, shape |-> "digits"],
                [length |-> 20, shape |-> "punctuated"], [length |-> 21, shape |-> "digits"],
                [length |-> 10, shape |-> "plusFirst"], [length |-> 10, shape |-> "plusInside"],
                [length |-> 10, shape |-> "letters"]},
        sc \in {1, 2},
        lat \in {Half(0 - 91), Num(0 - 90), Num(90), Half(90)},
        lng \in {Num(0 - 181), Num(0 - 180), Num(180), Half(180)},
        r \in {Num(0), Half(0), Num(1), Num(200), Num(201)},
        lb \in {<<Num(0), FALSE>>, <<Num(0), TRUE>>, <<Num(1), TRUE>>, <<Half(1), TRUE>>,
                <<Num(30), TRUE>>, <<Num(31), TRUE>>}}

\* mutant: radiusMiles: z.number().int().positive(), without .max(200)
subscriptionSchemaNoRadiusMax(b) ==
    /\ b.phone.length >= 5 /\ b.phone.length <= 20 /\ PhoneRegex(b.phone)
    /\ b.speciesCode >= 2
    /\ AtLeast(b.latitude, 0 - 90) /\ AtMost(b.latitude, 90)
    /\ AtLeast(b.longitude, 0 - 180) /\ AtMost(b.longitude, 180)
    /\ IsInt(b.radiusMiles) /\ Positive(b.radiusMiles)
    /\ b.hasLookBackDays =>
          IsInt(b.lookBackDays) /\ Positive(b.lookBackDays) /\ AtMost(b.lookBackDays, 30)

\* subscriptionSchema.safeParse(req.body).success, lines 22-35 and 46
subscriptionSchema(b) ==
    /\ b.phone.length >= 5 /\ b.phone.length <= 20 /\ PhoneRegex(b.phone)
    /\ b.speciesCode >= 2
    /\ AtLeast(b.latitude, 0 - 90) /\ AtMost(b.latitude, 90)
    /\ AtLeast(b.longitude, 0 - 180) /\ AtMost(b.longitude, 180)
    /\ IsInt(b.radiusMiles) /\ Positive(b.radiusMiles) /\ AtMost(b.radiusMiles, 200)
    /\ b.hasLookBackDays =>
          IsInt(b.lookBackDays) /\ Positive(b.lookBackDays) /\ AtMost(b.lookBackDays, 30)

\* parseResult.data and the INSERT of db.js 29-66: the row of an accepted body
createSubscription(b) ==
    [id |-> nextId, radiusMiles |-> b.radiusMiles.n,
     lookBackDays |-> IF b.hasLookBackDays THEN b.lookBackDays.n ELSE DefaultLookBackDays,
     lastObservationId |-> Null, lastNotifiedAt |-> Null]

\* app.post('/api/subscriptions'), lines 45-57: 400 on a body that does not parse,
\* else the INSERT and 201
PostSubscriptions ==
    /\ reqBody.arrived
    /\ reqBody' = NoBody
    /\ IF subscriptionSchema(reqBody)
         THEN /\ store' = [i \in DOMAIN store \cup {nextId} |->
                              IF i = nextId THEN createSubscription(reqBody) ELSE store[i]]
              /\ nextId' = nextId + 1
              /\ ev' = [Plain(0, "Created") EXCEPT !.id = nextId]
         ELSE /\ ev' = Plain(0, "BadRequest")
              /\ UNCHANGED <<store, nextId>>
    /\ UNCHANGED <<fixed, world, now, ebirdApiKey, scheduled, twilioClient,
                   twilioFromNumber, minimumNotificationMinutes, locals, sent,
                   failedEarlier, lastDispatch, browser, app>>

\* a request has arrived at a server whose table is empty
InitCreate ==
    /\ ServerInit(FALSE) /\ ~twilioClient /\ ~twilioFromNumber
    /\ FeedIdle /\ CatalogIdle
    /\ reqBody \in Bodies
    /\ AppIdle

NextCreate ==
    \/ PostSubscriptions
    \/ \E id \in 1..MaxOverlapSubs : DeleteSubscription(id)

SpecCreate == InitCreate /\ [][NextCreate]_vars

\* the conditions the claim names for an accepted payload
ClaimedRules(b) ==
    /\ b.phone.length >= 5 /\ b.phone.length <= 20
    /\ b.phone.shape \in {"digits", "plusFirst", "plusInside", "punctuated"}
    /\ AtLeast(b.latitude, 0 - 90) /\ AtMost(b.latitude, 90)
    /\ AtLeast(b.longitude, 0 - 180) /\ AtMost(b.longitude, 180)
    /\ Positive(b.radiusMiles) /\ AtMost(b.radiusMiles, 200)
    /\ b.hasLookBackDays => Positive(b.lookBackDays) /\ AtMost(b.lookBackDays, 30)

\* the step inserted exactly one row, with the payload's values and an unset cursor
InsertedOne ==
    /\ DOMAIN store' = DOMAIN store \cup {ev'.id}
    /\ ev'.id \notin DOMAIN store
    /\ \A i \in DOMAIN store : store'[i] = store[i]
    /\ store'[ev'.id].lastObservationId = Null
    /\ store'[ev'.id].lastNotifiedAt = Null
    /\ store'[ev'.id].radiusMiles = reqBody.radiusMiles.n
    /\ store'[ev'.id].lookBackDays =
          IF reqBody.hasLookBackDays THEN reqBody.lookBackDays.n ELSE DefaultLookBackDays

\* C31: create accepts a payload only if phone has 5 to 20 characters of digits, plus
\* and punctuation, latitude is in [-90,90], longitude in [-180,180], radiusMiles in
\* (0,200] and lookBackDays in (0,30] (3 when omitted); a rejected payload is answered
\* with an error and leaves the store as it is; an accepted one inserts exactly one
\* subscription, whose cursor is unset.
C31_CreateValidates ==
    [][(reqBody.arrived /\ ~reqBody'.arrived) =>
          /\ ev'.state \in {"Created", "BadRequest"}
          /\ ev'.state = "Created" => ClaimedRules(reqBody) /\ InsertedOne
          /\ ev'.state = "BadRequest" => store' = store /\ nextId' = nextId]_vars

\* a body without lookBackDays and with the largest radius was accepted
C31_Witness ==
    /\ ev.state = "Created"
    /\ ev.id \in DOMAIN store
    /\ store[ev.id] = [id |-> ev.id, radiusMiles |-> 200, lookBackDays |-> 3,
                       lastObservationId |-> Null, lastNotifiedAt |-> Null]

\* the feed call or the transport call that invocation c awaits returns, with a value
\* or with an exception
CallReturns(c) ==
    \/ \E feed \in Feeds(MaxStaleFeed) : FetchResolve(c, feed)
    \/ \E feed \in Feeds(MaxStaleFeed) : FetchResolveStoreError(c, feed)
    \/ FetchResolveNonArray(c)
    \/ FetchReject(c)
    \/ FetchNotFound(c)
    \/ SendResolve(c)
    \/ SendResolveStoreError(c)
    \/ SendReject(c)

\* invocations one at a time, in a process that keeps running, every call returning
NextReturns ==
    \/ nextId <= MaxSubs /\ CreateSubscription
    \/ \E id \in 1..MaxSubs : DeleteSubscription(id)
    \/ CronTrigger(1)
    \/ CronListError(1)
    \/ CallReturns(1)

SpecReturns == Init /\ [][NextReturns]_vars /\ WF_vars(CallReturns(1))

\* the step ends the processing of the row invocation c is at
RowEnds(c) ==
    /\ pc[c] \in {"fetch", "send"}
    /\ idx'[c] # idx[c] \/ pc'[c] = "idle"

\* the ways the processing of a row can end
TerminalStates == {"Committed", "Throttled", "Failed"}

\* one step of the for-loop of invocation c: it starts on the first row of the list
\* just read, stays on its row until the row ends in a terminal state, and then moves
\* to the next row of the same list or returns after the last
InListOrder(c) ==
    /\ (pc[c] = "idle" /\ pc'[c] # "idle") =>
          /\ subscriptions'[c] = listSubscriptions
          /\ idx'[c] = 1
    /\ RowEnds(c) =>
          /\ ev'.c = c
          /\ ev'.state \in TerminalStates
          /\ ev'.id = subscriptions[c][idx[c]].id
          /\ IF idx[c] < Len(subscriptions[c])
               THEN /\ idx'[c] = idx[c] + 1
                    /\ pc'[c] = "fetch"
                    /\ subscriptions'[c] = subscriptions[c]
               ELSE pc'[c] = "idle"
    /\ (pc[c] # "idle" /\ ~RowEnds(c)) =>
          /\ idx'[c] = idx[c]
          /\ subscriptions'[c] = subscriptions[c]
          /\ ev'.c = c => ev'.state = "Dispatching" /\ pc[c] = "fetch" /\ pc'[c] = "send"

\* C32: a cycle processes each subscription of the list it read exactly once, one after
\* the other in list order; the processing of each ends in exactly one of Committed,
\* Throttled and Failed; and provided every feed and transport call returns, the
\* cycle terminates.
C32_EachRowOnceAndTerminates ==
    /\ [][InListOrder(1)]_vars
    /\ (pc[1] # "idle") ~> (pc[1] = "idle")

\* the cycle is on the second row of a list of two, the first having ended Failed
C32_Witness ==
    /\ Len(subscriptions[1]) = MaxSubs
    /\ idx[1] = MaxSubs
    /\ ev.state = "Failed"
    /\ ev.id = subscriptions[1][1].id
    /\ pc[1] = "fetch"

\* the step is one of invocation c and leaves it with a feed request just issued
IssuesFetch(c) == ev'.c = c /\ pc'[c] = "fetch"

\* the step is one of invocation c and leaves it with a send just attempted
IssuesSend(c) == ev'.c = c /\ pc'[c] = "send"

\* invocation c issues a feed request only for a row it has not worked on (the first
\* row of a list just read, or the row after the one that just ended), attempts a send
\* only after the row's one fetch, and leaves a row whose fetch or send failed
NoRetry(c) ==
    /\ IssuesFetch(c) =>
          \/ pc[c] = "idle" /\ idx'[c] = 1
          \/ ev'.state = "Restarted" /\ idx'[c] = 1
          \/ RowEnds(c) /\ idx'[c] = idx[c] + 1 /\ subscriptions'[c] = subscriptions[c]
    /\ IssuesSend(c) =>
          /\ pc[c] = "fetch"
          /\ idx'[c] = idx[c]
          /\ ev'.state = "Dispatching"
    /\ (pc[c] = "send" /\ ev'.c = c) => pc'[c] # "send" /\ (RowEnds(c) \/ ev'.state = "Restarted")
    /\ (ev'.c = c /\ ev'.state = "Failed") =>
          /\ pc[c] \in {"fetch", "send"}
          /\ pc'[c] = "idle" \/ idx'[c] = idx[c] + 1

\* C33: within one cycle nothing is retried: each subscription causes exactly one feed
\* request and at most one send attempt, and after a failed fetch or send the cycle
\* goes on to the next subscription (or ends); the subscription is tried again only by
\* a later cycle.
C33_NoRetryWithinCycle ==
    [][\A c \in Cycles : NoRetry(c)]_vars

\* a send has just failed on the first row of a list of two, and the cycle has issued
\* the fetch for the second row
C33_Witness ==
    /\ ev.state = "Failed"
    /\ ev.cause = "send"
    /\ Len(subscriptions[ev.c]) = MaxSubs
    /\ ev.id = subscriptions[ev.c][1].id
    /\ idx[ev.c] = 2
    /\ pc[ev.c] = "fetch"

\* sighting p has been the primary of an alert sent for subscription id: with SMS
\* enabled the cursor is written at line 111 only after the send of line 104, and it
\* names the primary of that send
AlreadyAlerted(id, p) ==
    /\ SmsEnabled
    /\ id \in DOMAIN store
    /\ store[id].lastObservationId = p

\* C34 as stated: when every send and every cursor write succeeds, no sighting is the
\* primary of two alerts sent to the same subscription, whatever the sequence of
\* cycles, overlapping ones included: no message goes out whose primary is the
\* sighting the subscription's cursor already records as notified.
C34_NoPrimaryTwice ==
    [][ev'.messaged => ~AlreadyAlerted(ev'.id, ev'.primary)]_vars

\* C35 as stated: no alert is sent for a subscription after it has been deleted: when
\* the delete completes after a cycle has listed the subscription and before the cycle
\* reaches the dispatch for it, the cycle attempts no send for it.
C35_NoSendAfterDelete ==
    [][\A c \in Cycles : IssuesSend(c) => ev'.id \in DOMAIN store]_vars

\* the step is the return, with an error, of the caller that started a load
LoadEndsInError(k) ==
    /\ callers[k].pc = "creator"
    /\ callers'[k].pc = "done"
    /\ callers'[k].got = "error"

\* the step is a call of loadSpeciesCatalog made when the latest load has ended in an
\* error and its starter has returned
CallsAfterError(k) ==
    /\ callers[k].pc = "out"
    /\ callers'[k].pc # "out"
    /\ Len(loads) > 0
    /\ loads[Len(loads)] = "rejected"
    /\ speciesCatalogPromise = Null

\* C36 as stated: a catalog load that ends in an error (response not ok, body not an
\* array, or no species/issf entry) leaves no catalog cached and no in-flight marker,
\* so that the next call starts a fresh load instead of returning a cached catalog.
C36_ErrorLeavesNothingCached ==
    [][\A k \in Callers :
          /\ LoadEndsInError(k) =>
                speciesCatalog' = NoCatalog /\ speciesCatalogPromise' = Null
          /\ CallsAfterError(k) =>
                Len(loads') = Len(loads) + 1 /\ callers'[k].pc = "creator"]_vars

\* ---- App: the suggestion effects, part_001 lines 223-383 ----
\* what can stand in a field: nothing, text too short for a place, a ZIP code, a
\* place, the label of the selected location; nothing, two queries, the common name
\* of the selected species
InputsOf(f) ==
    IF f = "location" THEN {"", "ab", "12345", "boston", "label"}
                      ELSE {"", "robin", "wren", "name"}

NothingShown == [run |-> 0, kind |-> "none"]

\* React runs the cleanup of the previous effect run: isCurrent = false, and
\* clearTimeout(debounce) where the run has one that has not fired
Cleanup(L) ==
    [L EXCEPT !.runs = [i \in 1..Len(L.runs) |->
                          [L.runs[i] EXCEPT !.isCurrent = FALSE,
                                            !.phase = IF @ = "timer" THEN "cancelled" ELSE @]]]

\* the run of an effect that looks the input up: after the debounce, or at once
StartRun(L, phase) ==
    [L EXCEPT !.loading = TRUE,
              !.runs = Append(@, [query |-> L.input, isCurrent |-> TRUE, phase |-> phase])]

\* the body of the location effect once no selection stands in its way, lines 266-336
LocationLookup(L) ==
    IF L.input = "12345" THEN StartRun(L, "flight")
    ELSE IF L.input = "ab"
      THEN [L EXCEPT !.suggestions = NothingShown, !.loading = FALSE,
                     !.error = [run |-> 0, kind |-> "tooShort"]]
      ELSE StartRun(L, "timer")

\* the location effect, lines 223-337, with the run that follows when it clears the
\* selection (locationSelection is one of its dependencies)
LocationEffect(L0) ==
    LET L == [L0 EXCEPT !.error = NothingShown]
    IN IF L.input = ""
         THEN [L EXCEPT !.suggestions = NothingShown, !.selection = "none",
                        !.loading = FALSE]
       ELSE IF L.selection # "none"
         THEN IF L.input = "label" \/ (L.input = "12345" /\ L.selection = "12345")
                THEN [L EXCEPT !.suggestions = NothingShown, !.loading = FALSE]
                ELSE LocationLookup([L EXCEPT !.selection = "none",
                                              !.suggestions = NothingShown,
                                              !.loading = FALSE])
       ELSE LocationLookup(L)

\* the species effect with an API key, lines 339-383
SpeciesEffect(L) ==
    IF L.input = ""
      THEN [L EXCEPT !.suggestions = NothingShown, !.loading = FALSE,
                     !.error = NothingShown]
    ELSE IF L.selection # "none" /\ L.input = "name"
      THEN [L EXCEPT !.suggestions = NothingShown]
    ELSE StartRun([L EXCEPT !.error = NothingShown], "timer")

Effect(f, L) == IF f = "location" THEN LocationEffect(Cleanup(L)) ELSE SpeciesEffect(Cleanup(L))

\* the effect would start a lookup for this field state
StartsRun(f, L) == Len(Effect(f, L).runs) > Len(L.runs)

\* the user edits the field: the state changes, and the effect runs on the new input
ChangeInput(f, q) ==
    /\ q # lookup[f].input
    /\ StartsRun(f, [lookup[f] EXCEPT !.input = q]) => Len(lookup[f].runs) < MaxRuns
    /\ lookup' = [lookup EXCEPT ![f] = Effect(f, [@ EXCEPT !.input = q])]
    /\ UNCHANGED <<server, browser, cooldown>>

\* handleLocationSuggestionSelection and handleSuggestionSelection, lines 385-403: the
\* user picks one of the suggestions shown, and the effect runs on the new state
SelectSuggestion(f) ==
    /\ lookup[f].suggestions.kind = "hits"
    /\ LET L == lookup[f]
       IN lookup' = [lookup EXCEPT ![f] =
             Effect(f, IF f = "location"
                         THEN [L EXCEPT !.selection = L.runs[L.suggestions.run].query,
                                        !.input = "label", !.suggestions = NothingShown,
                                        !.error = NothingShown, !.loading = FALSE]
                         ELSE [L EXCEPT !.selection = "picked", !.input = "name",
                                        !.suggestions = NothingShown])]
    /\ UNCHANGED <<server, browser, cooldown>>

\* the debounce timer of run r fires: searchLocations or searchSpecies is called
DebounceFires(f, r) ==
    /\ r \in 1..Len(lookup[f].runs)
    /\ lookup[f].runs[r].phase = "timer"
    /\ lookup' = [lookup EXCEPT ![f].runs[r].phase = "flight"]
    /\ UNCHANGED <<server, browser, cooldown>>

\* what run r of field f sets when its lookup has returned hits, an empty list or an
\* error: the try, catch and finally blocks without their tests of isCurrent
Applied(f, L, r, outcome) ==
    [L EXCEPT !.loading = FALSE,
              !.suggestions = IF outcome = "error" THEN NothingShown
                              ELSE [run |-> r, kind |-> outcome],
              !.error = IF outcome = "error" THEN [run |-> r, kind |-> "failed"]
                        ELSE IF f = "species" THEN @
                        ELSE IF outcome = "empty" THEN [run |-> r, kind |-> "noMatch"]
                        ELSE NothingShown]

\* mutant: the callbacks set the state without looking at isCurrent
RespondsUnguarded(f, r, outcome) ==
    /\ r \in 1..Len(lookup[f].runs)
    /\ lookup[f].runs[r].phase = "flight"
    /\ lookup' = [lookup EXCEPT ![f] =
                    Applied(f, [@ EXCEPT !.runs[r].phase = "applied"], r, outcome)]
    /\ UNCHANGED <<server, browser, cooldown>>

\* the lookup of run r returns: its results, error and loading flag are set only if
\* the run's isCurrent is still true
Responds(f, r, outcome) ==
    /\ r \in 1..Len(lookup[f].runs)
    /\ lookup[f].runs[r].phase = "flight"
    /\ lookup' = [lookup EXCEPT ![f] =
                    IF @.runs[r].isCurrent
                      THEN Applied(f, [@ EXCEPT !.runs[r].phase = "applied"], r, outcome)
                      ELSE [@ EXCEPT !.runs[r].phase = "dropped"]]
    /\ UNCHANGED <<server, browser, cooldown>>

Outcomes == {"hits", "empty", "error"}

\* one field at a time (the two effects share no state)
NextLookup ==
    \E f \in Fields :
        /\ \A g \in Fields \ {f} : lookup[g] = FreshLookup
        /\ \/ \E q \in InputsOf(f) : ChangeInput(f, q)
           \/ SelectSuggestion(f)
           \/ \E r \in 1..MaxRuns : DebounceFires(f, r)
           \/ \E r \in 1..MaxRuns, outcome \in Outcomes : Responds(f, r, outcome)

InitLookup == InitWith(FALSE) /\ ~twilioClient /\ ~twilioFromNumber

SpecLookup == InitLookup /\ [][NextLookup]_vars

\* what the field displays
Display(L) == <<L.suggestions, L.error, L.loading>>

\* the input of run r of field f is no longer the current one: the field has been
\* edited since, or a later effect run has started a lookup
Superseded(f, r) ==
    \/ r < Len(lookup[f].runs)
    \/ lookup[f].input # lookup[f].runs[r].query

\* the step is the return of the lookup of run r of field f
Returns(f, r) ==
    /\ lookup[f].runs[r].phase = "flight"
    /\ lookup'[f].runs[r].phase # "flight"

SEARCH_COOLDOWN_MS == 4000
MsPerSecond == 1000

\* Math.ceil(SEARCH_COOLDOWN_MS / 1000)
CooldownSecondsAtStart == (SEARCH_COOLDOWN_MS + MsPerSecond - 1) \div MsPerSecond

\* window.clearTimeout / window.clearInterval with the id a ref holds
Cleared(timers, ref) == {t \in timers : t.id # ref}

\* startCooldown, lines 170-203: timers are kept with the seconds left until they fire
startCooldown(C) ==
    [C EXCEPT !.isCooldown = TRUE,
              !.cooldownSeconds = CooldownSecondsAtStart,
              !.timeouts = Cleared(@, C.cooldownTimeoutRef) \cup
                              {[id |-> C.nextTimer, left |-> SEARCH_COOLDOWN_MS \div MsPerSecond]},
              !.intervals = Cleared(@, C.cooldownIntervalRef) \cup
                              {[id |-> C.nextTimer + 1, left |-> 1]},
              !.cooldownTimeoutRef = C.nextTimer,
              !.cooldownIntervalRef = C.nextTimer + 1,
              !.nextTimer = C.nextTimer + 2]

\* mutant: handleSearch without the test of isCooldown of lines 413-416
handleSearchNoCooldownTest(valid) ==
    /\ IF ~valid
         THEN cooldown' = [cooldown EXCEPT !.errorMessage = "invalid"]
         ELSE /\ cooldown.searches < MaxSearches
              /\ cooldown' = [startCooldown(cooldown) EXCEPT
                                !.searchState = "searching", !.errorMessage = "none",
                                !.searches = @ + 1, !.inFlight = @ + 1]
    /\ UNCHANGED <<server, browser, lookup>>

\* handleSearch with an API key, lines 405-420: the form is valid or not; during the
\* cooldown only the message is set; otherwise the cooldown and the search start
handleSearch(valid) ==
    /\ IF ~valid
         THEN cooldown' = [cooldown EXCEPT !.errorMessage = "invalid"]
         ELSE IF cooldown.isCooldown
           THEN cooldown' = [cooldown EXCEPT !.errorMessage = "wait"]
           ELSE /\ cooldown.searches < MaxSearches
                /\ cooldown' = [startCooldown(cooldown) EXCEPT
                                  !.searchState = "searching", !.errorMessage = "none",
                                  !.searches = @ + 1, !.inFlight = @ + 1]
    /\ UNCHANGED <<server, browser, lookup>>

\* lines 421-487: a search that was started ends, with results or in the catch block
SearchSettles(ok) ==
    /\ cooldown.inFlight > 0
    /\ cooldown' = [cooldown EXCEPT !.inFlight = @ - 1,
                                    !.searchState = IF ok THEN "ready" ELSE "error",
                                    !.errorMessage = IF ok THEN @ ELSE "failed"]
    /\ UNCHANGED <<server, browser, lookup>>

\* a second passes; a timer that is due fires before more time passes
SecondPasses ==
    /\ cooldown.timeouts \cup cooldown.intervals # {}
    /\ \A t \in cooldown.timeouts \cup cooldown.intervals : t.left > 0
    /\ cooldown' = [cooldown EXCEPT
                      !.timeouts = {[t EXCEPT !.left = @ - 1] : t \in @},
                      !.intervals = {[t EXCEPT !.left = @ - 1] : t \in @}]
    /\ UNCHANGED <<server, browser, lookup>>

\* the callback of the timeout, lines 182-189
TimeoutFires(id) ==
    /\ [id |-> id, left |-> 0] \in cooldown.timeouts
    /\ cooldown' = [cooldown EXCEPT
                      !.timeouts = Cleared(@, id),
                      !.isCooldown = FALSE,
                      !.cooldownSeconds = 0,
                      !.cooldownTimeoutRef = 0,
                      !.intervals = IF cooldown.cooldownIntervalRef # 0
                                      THEN Cleared(@, cooldown.cooldownIntervalRef) ELSE @,
                      !.cooldownIntervalRef = 0]
    /\ UNCHANGED <<server, browser, lookup>>

\* the callback of the interval, lines 191-202; the interval is due again a second later
IntervalFires(id) ==
    /\ [id |-> id, left |-> 0] \in cooldown.intervals
    /\ LET again == Cleared(cooldown.intervals, id) \cup {[id |-> id, left |-> 1]}
       IN cooldown' =
            IF cooldown.cooldownSeconds <= 1
              THEN [cooldown EXCEPT
                      !.cooldownSeconds = 0,
                      !.intervals = IF cooldown.cooldownIntervalRef # 0
                                      THEN Cleared(again, cooldown.cooldownIntervalRef)
                                      ELSE again,
                      !.cooldownIntervalRef = 0]
              ELSE [cooldown EXCEPT !.cooldownSeconds = @ - 1, !.intervals = again]
    /\ UNCHANGED <<server, browser, lookup>>

TimerIds == 1..(2 * MaxSearches)

\* time passes and the browser runs the timers that are due
TimersRun ==
    \/ SecondPasses
    \/ \E id \in TimerIds : TimeoutFires(id)
    \/ \E id \in TimerIds : IntervalFires(id)

NextCooldown ==
    \/ \E valid \in BOOLEAN : handleSearch(valid)
    \/ \E ok \in BOOLEAN : SearchSettles(ok)
    \/ SecondPasses
    \/ \E id \in TimerIds : TimeoutFires(id)
    \/ \E id \in TimerIds : IntervalFires(id)

InitCooldown == InitWith(FALSE) /\ ~twilioClient /\ ~twilioFromNumber

SpecCooldown == InitCooldown /\ [][NextCooldown]_vars /\ WF_vars(TimersRun)

\* the timers of the cooldown: at most one timeout and one interval are pending; while
\* the cooldown is active its timeout is pending and fires within 4000 ms; when it is
\* not, nothing is pending and the count is 0
OneCooldownTimer ==
    /\ Cardinality(cooldown.timeouts) <= 1
    /\ Cardinality(cooldown.intervals) <= 1
    /\ cooldown.isCooldown =>
          \E t \in cooldown.timeouts :
              /\ t.id = cooldown.cooldownTimeoutRef
              /\ t.left * MsPerSecond <= SEARCH_COOLDOWN_MS
    /\ ~cooldown.isCooldown =>
          /\ cooldown.timeouts = {} /\ cooldown.intervals = {}
          /\ cooldown.cooldownSeconds = 0

\* a search starts only outside the cooldown and begins one of 4000 ms; a handleSearch
\* during the cooldown sets the message and nothing else
SearchStartsCooldown ==
    /\ cooldown'.searches # cooldown.searches =>
          /\ ~cooldown.isCooldown
          /\ cooldown'.isCooldown
          /\ cooldown'.cooldownSeconds * MsPerSecond = SEARCH_COOLDOWN_MS
          /\ \E t \in cooldown'.timeouts : t.left * MsPerSecond = SEARCH_COOLDOWN_MS
    /\ (cooldown.isCooldown /\ cooldown'.errorMessage # cooldown.errorMessage
           /\ cooldown'.inFlight = cooldown.inFlight) =>
          cooldown' = [cooldown EXCEPT !.errorMessage = cooldown'.errorMessage]

\* C38: every search that starts begins a 4000 ms cooldown; handleSearch starts no
\* search while the cooldown is active, it only sets the error message; the cooldown
\* ends, with isCooldown false and cooldownSeconds 0, once 4000 ms have passed; and at
\* most one cooldown timeout and one countdown interval are pending at any time.
C38_Cooldown ==
    /\ []OneCooldownTimer
    /\ [][SearchStartsCooldown]_vars
    /\ cooldown.isCooldown ~> (~cooldown.isCooldown /\ cooldown.cooldownSeconds = 0)

\* a second search was asked for during the cooldown of the first and refused
C38_Witness ==
    /\ cooldown.isCooldown
    /\ cooldown.searches = 1
    /\ cooldown.errorMessage = "wait"
    /\ cooldown.cooldownSeconds = 2

====
